---- MODULE Spec2Model ----
(***************************************************************************)
(* ReminderRelay: bidirectional sync of Apple Reminders (the local side)   *)
(* with Home Assistant todo lists (the remote side) through a SQLite       *)
(* ledger (sync_items).  The model follows internal/sync (Reconciler,      *)
(* Bootstrap, Engine), internal/state (Store), internal/homeassistant      *)
(* (Adapter, convert, Retry), internal/model (Item) and startSync of       *)
(* cmd/reminderrelay.                                                      *)
(*                                                                         *)
(* Spec is the sync command: passes, the user's edits between them and the *)
(* first-run bootstrap.  SpecMatch applies the bootstrap to arbitrary      *)
(* lists, SpecRetry is one call of Retry, SpecEngine is the polling loop   *)
(* of Engine.Run (SpecEngineFair adds its scheduling), and SpecConc is a   *)
(* pass of the listener goroutine beside a pass of the polling loop.       *)
(* SpecListen is the subscription goroutine, SpecItem the conversions of   *)
(* one item.  SpecSettle is failure-free passes under fair scheduling,     *)
(* SpecRace adds a second client of Home Assistant, SpecMove two mapped    *)
(* lists and reminders moving between them, SpecBootFail a bootstrap with  *)
(* a failing call, SpecBootPass the bootstrap and the pass after it,       *)
(* SpecStore is UpsertItem on any ledger and SpecBackoff is backoffDelay.  *)
(*                                                                         *)
(* Text is modelled as a sequence of lexemes: a title, a description or a  *)
(* date string is a tuple of strings, and concatenation is \o.  The three  *)
(* priority prefixes and the separator "|" are single lexemes.             *)
(***************************************************************************)
EXTENDS Integers, Sequences, FiniteSets, TLC

\* ------------------------------------------------------------------------
\* Bounds of the model
\* ------------------------------------------------------------------------

\* number of disturbances: edits the user makes on either side, and adapter
\* calls of a pass that fail for an external reason
MaxEdits == 2
\* number of UIDs either side hands out
MaxUID == 4
\* number of synced pairs in the initial state
MaxPairs == 2
\* the instants are 0 (the zero instant) to MaxTime
MaxTime == 2
\* number of items on either side when the bootstrap's matching is applied to
\* arbitrary lists
MaxItems == 2
\* the largest maxAttempts a direct caller hands to Retry
MaxAttempts == 4
\* the state_changed events Home Assistant sends while Engine.Run is connected
MaxEvents == 2

\* ------------------------------------------------------------------------
\* internal/model: Item, ContentHash, priority prefix
\* ------------------------------------------------------------------------

PriorityNone == 0
PriorityHigh == 1
PriorityMedium == 5
PriorityLow == 9

prefixHigh == "[High] "
prefixMedium == "[Medium] "
prefixLow == "[Low] "

\* the empty string as a UID
EmptyUID == 0
\* a nil *time.Time
NoDue == <<>>
\* the zero time.Time
ZeroTime == 0

\* a nil *model.Item / a pointer to an item
Nil == <<>>
Ptr(item) == <<item>>

\* fmt.Fprintf(h, "%d", i.Priority)
PriorityDigits(p) ==
    CASE p = PriorityHigh -> "1"
      [] p = PriorityMedium -> "5"
      [] p = PriorityLow -> "9"
      [] OTHER -> "0"

\* fmt.Fprintf(h, "%t", i.Completed)
BoolText(b) == IF b THEN "true" ELSE "false"

\* The byte string fed to SHA-256; the digest is taken to be collision free,
\* so the hash is identified with its input.  A due date <<day, clock>> is
\* its RFC 3339 rendering in UTC, a nil due date contributes nothing.
ContentHash(i) ==
    i.Title \o <<"|">> \o i.Description \o <<"|">> \o i.DueDate \o <<"|">>
        \o <<PriorityDigits(i.Priority)>> \o <<"|">> \o <<BoolText(i.Completed)>>

EncodePriorityPrefix(p, description) ==
    CASE p = PriorityHigh -> <<prefixHigh>> \o description
      [] p = PriorityMedium -> <<prefixMedium>> \o description
      [] p = PriorityLow -> <<prefixLow>> \o description
      [] OTHER -> description

\* strings.HasPrefix for a one-lexeme prefix
HasPrefix(s, prefix) == Len(s) > 0 /\ s[1] = prefix

DecodePriorityPrefix(description) ==
    CASE HasPrefix(description, prefixHigh) ->
            [priority |-> PriorityHigh, description |-> Tail(description)]
      [] HasPrefix(description, prefixMedium) ->
            [priority |-> PriorityMedium, description |-> Tail(description)]
      [] HasPrefix(description, prefixLow) ->
            [priority |-> PriorityLow, description |-> Tail(description)]
      [] OTHER -> [priority |-> PriorityNone, description |-> description]

\* ------------------------------------------------------------------------
\* internal/homeassistant: convert.go
\* ------------------------------------------------------------------------

statusNeedsAction == "needs_action"
statusCompleted == "completed"

\* midnight, the clock part time.Parse gives a date-only string
Midnight == "T00:00:00Z"

\* "2006-01-02" first, RFC 3339 otherwise
parseDue(s) == IF Len(s) = 1 THEN <<s[1], Midnight>> ELSE s

\* t.Format("2006-01-02"): the day, without the clock part
formatDue(t) == <<t[1]>>

haItemToModelItem(h) ==
    LET dec == DecodePriorityPrefix(h.description)
    IN [UID |-> h.uid,
        Title |-> h.summary,
        Description |-> dec.description,
        DueDate |-> IF h.due /= <<>> THEN parseDue(h.due) ELSE NoDue,
        Priority |-> dec.priority,
        Completed |-> (h.status = statusCompleted),
        ModifiedAt |-> ZeroTime,
        ListName |-> ""]

\* A key the payload leaves out is the empty tuple.
buildAddItemData(entityID, item) ==
    [entity_id |-> entityID,
     item |-> item.Title,
     description |-> EncodePriorityPrefix(item.Priority, item.Description),
     due_date |-> IF item.DueDate /= NoDue THEN formatDue(item.DueDate) ELSE <<>>]

buildUpdateItemData(entityID, currentTitle, item) ==
    [entity_id |-> entityID,
     item |-> currentTitle,
     rename |-> IF item.Title /= currentTitle THEN <<item.Title>> ELSE <<>>,
     description |-> EncodePriorityPrefix(item.Priority, item.Description),
     due_date |-> IF item.DueDate /= NoDue THEN formatDue(item.DueDate) ELSE <<>>,
     status |-> IF item.Completed THEN statusCompleted ELSE statusNeedsAction]

buildRemoveItemData(entityID, title) == [entity_id |-> entityID, item |-> title]

\* ------------------------------------------------------------------------
\* Home Assistant: the todo entities behind the REST API.  ha[e] is the item
\* list of entity e as the server holds it (haTodoItem records).  The server
\* addresses an item by the first summary equal to the "item" key, creates
\* items as needs_action and overwrites the keys of an update; a due date the
\* payload leaves out is cleared.
\* ------------------------------------------------------------------------

\* index of the first item titled title, 0 when there is none
FirstByTitle(items, title) ==
    IF \E i \in 1..Len(items) : items[i].summary = title
    THEN CHOOSE i \in 1..Len(items) :
            /\ items[i].summary = title
            /\ \A j \in 1..(i - 1) : items[j].summary /= title
    ELSE 0

RemoveAt(items, i) == SubSeq(items, 1, i - 1) \o SubSeq(items, i + 1, Len(items))

\* Adapter.GetItems: the items of the entity, normalised
GetItems(ha, entityID) ==
    [i \in 1..Len(ha[entityID]) |-> haItemToModelItem(ha[entityID][i])]

\* Adapter.AddItem; uid is the UID the server assigns
AddItem(ha, entityID, item, uid, fail) ==
    LET data == buildAddItemData(entityID, item)
        new == [uid |-> uid, summary |-> data.item, status |-> statusNeedsAction,
                description |-> data.description, due |-> data.due_date]
    IN IF fail THEN [err |-> TRUE, ha |-> ha]
       ELSE [err |-> FALSE,
             ha |-> [ha EXCEPT ![data.entity_id] = Append(@, new)]]

\* Adapter.UpdateItem
UpdateItem(ha, entityID, currentTitle, item, fail) ==
    LET data == buildUpdateItemData(entityID, currentTitle, item)
        i == FirstByTitle(ha[data.entity_id], data.item)
    IN IF fail \/ i = 0 THEN [err |-> TRUE, ha |-> ha]
       ELSE [err |-> FALSE,
             ha |-> [ha EXCEPT ![data.entity_id][i] =
                        [uid |-> @.uid,
                         summary |-> IF data.rename /= <<>> THEN data.rename[1]
                                     ELSE @.summary,
                         status |-> data.status,
                         description |-> data.description,
                         due |-> data.due_date]]]

\* Adapter.RemoveItem
RemoveItem(ha, entityID, title, fail) ==
    LET data == buildRemoveItemData(entityID, title)
        i == FirstByTitle(ha[data.entity_id], data.item)
    IN IF fail \/ i = 0 THEN [err |-> TRUE, ha |-> ha]
       ELSE [err |-> FALSE,
             ha |-> [ha EXCEPT ![data.entity_id] = RemoveAt(@, i)]]

\* ------------------------------------------------------------------------
\* Apple Reminders behind the reminders adapter.  rem maps the UID of each
\* reminder to its normalised item.  Writes stamp ModifiedAt with Now.
\* ------------------------------------------------------------------------

\* the instant of a write made by a pass
Now == MaxTime

\* Adapter.FetchAll
FetchAll(rem, listNames) ==
    [u \in {v \in DOMAIN rem : rem[v].ListName \in listNames} |-> rem[u]]

\* Adapter.Create.  fault 1: CreateReminder fails; fault 2: CreateReminder
\* succeeds and CompleteReminder fails, which leaves an incomplete reminder.
Create(rem, item, uid, fault) ==
    LET made == [UID |-> uid, Title |-> item.Title, Description |-> item.Description,
                 DueDate |-> item.DueDate, Priority |-> item.Priority,
                 Completed |-> FALSE, ModifiedAt |-> Now, ListName |-> item.ListName]
    IN IF fault = 1 THEN [err |-> TRUE, uid |-> EmptyUID, rem |-> rem]
       ELSE IF item.Completed /\ fault = 2
            THEN [err |-> TRUE, uid |-> uid, rem |-> (uid :> made) @@ rem]
            ELSE [err |-> FALSE, uid |-> uid,
                  rem |-> (uid :> [made EXCEPT !.Completed = item.Completed]) @@ rem]

\* Adapter.Update
Update(rem, uid, item, fail) ==
    IF fail \/ uid \notin DOMAIN rem THEN [err |-> TRUE, rem |-> rem]
    ELSE [err |-> FALSE,
          rem |-> [rem EXCEPT ![uid] =
                     [UID |-> @.UID, Title |-> item.Title,
                      Description |-> item.Description, DueDate |-> item.DueDate,
                      Priority |-> item.Priority, Completed |-> item.Completed,
                      ModifiedAt |-> Now, ListName |-> @.ListName]]]

\* Adapter.Delete
Delete(rem, uid, fail) ==
    IF fail \/ uid \notin DOMAIN rem THEN [err |-> TRUE, rem |-> rem]
    ELSE [err |-> FALSE, rem |-> [u \in DOMAIN rem \ {uid} |-> rem[u]]]

\* ------------------------------------------------------------------------
\* internal/state: the ledger (table sync_items) as a set of rows
\* ------------------------------------------------------------------------

\* The INSERT ... ON CONFLICT(reminders_uid) statement: a row with the same
\* non-empty reminders_uid is updated in place, otherwise a row is inserted;
\* the unique index on ha_uid makes either fail when another row already has
\* the non-empty ha_uid.  item.ID is not an input of the statement.
\* the statement on a table without the unique index on ha_uid
UpsertNoHAIndex(rows, nextID, item) ==
    LET same == {r \in rows : item.RemindersUID /= EmptyUID
                               /\ r.RemindersUID = item.RemindersUID}
    IN IF same /= {}
       THEN [err |-> FALSE,
             rows |-> (rows \ same) \cup {[item EXCEPT !.ID = r.ID] : r \in same},
             nextID |-> nextID]
       ELSE [err |-> FALSE,
             rows |-> rows \cup {[item EXCEPT !.ID = nextID]},
             nextID |-> nextID + 1]

UpsertItem(rows, nextID, item) ==
    LET same == {r \in rows : item.RemindersUID /= EmptyUID
                               /\ r.RemindersUID = item.RemindersUID}
        clash == \E r \in rows \ same : item.HAUID /= EmptyUID /\ r.HAUID = item.HAUID
    IN IF clash THEN [err |-> TRUE, rows |-> rows, nextID |-> nextID]
       ELSE IF same /= {}
            THEN [err |-> FALSE,
                  rows |-> (rows \ same) \cup
                           {[item EXCEPT !.ID = r.ID] : r \in same},
                  nextID |-> nextID]
            ELSE [err |-> FALSE,
                  rows |-> rows \cup {[item EXCEPT !.ID = nextID]},
                  nextID |-> nextID + 1]

DeleteItem(rows, id) == {r \in rows : r.ID /= id}

GetAllItemsForList(rows, listName) == {r \in rows : r.ListName = listName}

\* a ledger that always reports itself empty
IsEmptyAlways(rows) == rows = rows

IsEmpty(rows) == rows = {}

\* ------------------------------------------------------------------------
\* internal/sync: Reconciler
\* ------------------------------------------------------------------------

actionNone == "none"
actionCreateInHA == "createInHA"
actionCreateInRem == "createInRem"
actionUpdateHA == "updateHA"
actionUpdateRem == "updateRem"
actionDeleteFromHA == "deleteFromHA"
actionDeleteFromRem == "deleteFromRem"

\* the zero Stats
ZeroStats == [Created |-> 0, Updated |-> 0, Deleted |-> 0, Conflicts |-> 0, Errors |-> 0]

\* a nil error; an error is <<what failed, the row ID or item UID it failed for>>
NoErr == <<>>

\* t1.Before(t2)
Before(t1, t2) == t1 < t2

\* remByUID[uid] / haByUID[uid]: nil when the map has no such key
Lookup(byUID, uid) == IF uid \in DOMAIN byUID THEN Ptr(byUID[uid]) ELSE Nil

\* decide with the newer side winning whenever any side changed
decideByTime(si, remItem, haItem) ==
    LET remExists == remItem /= Nil
        haExists == haItem /= Nil
    IN IF ~remExists /\ ~haExists THEN actionDeleteFromHA
       ELSE IF ~remExists /\ haExists THEN actionDeleteFromHA
       ELSE IF remExists /\ ~haExists THEN actionDeleteFromRem
       ELSE LET remChanged == ContentHash(remItem[1]) /= si.LastSyncHash
                haChanged == ContentHash(haItem[1]) /= si.LastSyncHash
            IN IF ~remChanged /\ ~haChanged THEN actionNone
               ELSE IF ~Before(remItem[1].ModifiedAt, haItem[1].ModifiedAt)
                    THEN actionUpdateHA
                    ELSE actionUpdateRem

\* decide with a changed modification time counting as a change of the item
decideByModified(si, remItem, haItem) ==
    LET remExists == remItem /= Nil
        haExists == haItem /= Nil
    IN IF ~remExists /\ ~haExists THEN actionDeleteFromHA
       ELSE IF ~remExists /\ haExists THEN actionDeleteFromHA
       ELSE IF remExists /\ ~haExists THEN actionDeleteFromRem
       ELSE LET remChanged == \/ ContentHash(remItem[1]) /= si.LastSyncHash
                              \/ remItem[1].ModifiedAt /= si.RemindersModified
                haChanged == \/ ContentHash(haItem[1]) /= si.LastSyncHash
                             \/ haItem[1].ModifiedAt /= si.HAModified
            IN IF ~remChanged /\ ~haChanged THEN actionNone
               ELSE IF remChanged /\ ~haChanged THEN actionUpdateHA
               ELSE IF ~remChanged /\ haChanged THEN actionUpdateRem
               ELSE IF ~Before(remItem[1].ModifiedAt, haItem[1].ModifiedAt)
                    THEN actionUpdateHA
                    ELSE actionUpdateRem

decide(si, remItem, haItem) ==
    LET remExists == remItem /= Nil
        haExists == haItem /= Nil
    IN IF ~remExists /\ ~haExists THEN actionDeleteFromHA
       ELSE IF ~remExists /\ haExists THEN actionDeleteFromHA
       ELSE IF remExists /\ ~haExists THEN actionDeleteFromRem
       ELSE LET remChanged == ContentHash(remItem[1]) /= si.LastSyncHash
                haChanged == ContentHash(haItem[1]) /= si.LastSyncHash
            IN IF ~remChanged /\ ~haChanged THEN actionNone
               ELSE IF remChanged /\ ~haChanged THEN actionUpdateHA
               ELSE IF ~remChanged /\ haChanged THEN actionUpdateRem
               ELSE IF ~Before(remItem[1].ModifiedAt, haItem[1].ModifiedAt)
                    THEN actionUpdateHA
                    ELSE actionUpdateRem

\* an update that locates the remote item by the title of the ledger row
currentHATitleOfRow(si, haItem) == si.Title

\* the title execute hands to UpdateItem to locate the remote item: the title
\* the item has in this pass's fetch
currentHATitle(si, haItem) == IF haItem /= Nil THEN haItem[1].Title ELSE si.Title

\* an execute that writes the ledger before it knows whether the adapter call
\* went through
executeLedgerFirst(act, si, remItem, haItem, entityID, fail, w) ==
    CASE act = actionNone -> [err |-> NoErr, w |-> w, calls |-> <<>>]
      [] act \in {actionCreateInHA, actionCreateInRem} ->
            [err |-> NoErr, w |-> [w EXCEPT !.rows = DeleteItem(@, si.ID)],
             calls |-> <<"store.DeleteItem">>]
      [] act = actionDeleteFromHA ->
            IF haItem /= Nil
            THEN LET r == RemoveItem(w.ha, entityID, haItem[1].Title, fail)
                 IN IF r.err
                    THEN [err |-> <<"deleting from HA", si.ID>>,
                          w |-> [w EXCEPT !.rows = DeleteItem(@, si.ID)],
                          calls |-> <<"ha.RemoveItem">>]
                    ELSE [err |-> NoErr,
                          w |-> [w EXCEPT !.ha = r.ha, !.rows = DeleteItem(@, si.ID)],
                          calls |-> <<"ha.RemoveItem", "store.DeleteItem">>]
            ELSE [err |-> NoErr, w |-> [w EXCEPT !.rows = DeleteItem(@, si.ID)],
                  calls |-> <<"store.DeleteItem">>]
      [] act = actionDeleteFromRem ->
            IF remItem /= Nil
            THEN LET r == Delete(w.rem, remItem[1].UID, fail)
                 IN IF r.err
                    THEN [err |-> <<"deleting from Reminders", si.ID>>,
                          w |-> [w EXCEPT !.rows = DeleteItem(@, si.ID)],
                          calls |-> <<"rem.Delete">>]
                    ELSE [err |-> NoErr,
                          w |-> [w EXCEPT !.rem = r.rem, !.rows = DeleteItem(@, si.ID)],
                          calls |-> <<"rem.Delete", "store.DeleteItem">>]
            ELSE [err |-> NoErr, w |-> [w EXCEPT !.rows = DeleteItem(@, si.ID)],
                  calls |-> <<"store.DeleteItem">>]
      [] act = actionUpdateHA ->
            LET r == UpdateItem(w.ha, entityID, currentHATitle(si, haItem), remItem[1],
                                fail)
                si2 == [si EXCEPT !.Title = remItem[1].Title,
                                  !.LastSyncHash = ContentHash(remItem[1]),
                                  !.RemindersModified = remItem[1].ModifiedAt,
                                  !.LastSyncedAt = Now]
                u == UpsertItem(w.rows, w.nextID, si2)
            IN IF r.err
               THEN [err |-> <<"updating in HA", si.ID>>,
                     w |-> [w EXCEPT !.rows = u.rows, !.nextID = u.nextID],
                     calls |-> <<"ha.UpdateItem">>]
               ELSE [err |-> IF u.err THEN <<"upserting item", si.ID>> ELSE NoErr,
                     w |-> [w EXCEPT !.ha = r.ha, !.rows = u.rows, !.nextID = u.nextID],
                     calls |-> <<"ha.UpdateItem", "store.UpsertItem">>]
      [] act = actionUpdateRem ->
            LET r == Update(w.rem, si.RemindersUID, haItem[1], fail)
                si2 == [si EXCEPT !.Title = haItem[1].Title,
                                  !.LastSyncHash = ContentHash(haItem[1]),
                                  !.HAModified = haItem[1].ModifiedAt,
                                  !.LastSyncedAt = Now]
                u == UpsertItem(w.rows, w.nextID, si2)
            IN IF r.err
               THEN [err |-> <<"updating in Reminders", si.ID>>,
                     w |-> [w EXCEPT !.rows = u.rows, !.nextID = u.nextID],
                     calls |-> <<"rem.Update">>]
               ELSE [err |-> IF u.err THEN <<"upserting item", si.ID>> ELSE NoErr,
                     w |-> [w EXCEPT !.rem = r.rem, !.rows = u.rows, !.nextID = u.nextID],
                     calls |-> <<"rem.Update", "store.UpsertItem">>]

\* The result of a step on the world w = [rem, ha, rows, nextID, nextRem,
\* nextHA]: the error returned, the world after it and the mutating adapter
\* and ledger calls made, in order.  fail: the adapter call of the step fails
\* for an external reason.
execute(act, si, remItem, haItem, entityID, fail, w) ==
    CASE act = actionNone -> [err |-> NoErr, w |-> w, calls |-> <<>>]
      [] act \in {actionCreateInHA, actionCreateInRem} ->
            [err |-> NoErr, w |-> [w EXCEPT !.rows = DeleteItem(@, si.ID)],
             calls |-> <<"store.DeleteItem">>]
      [] act = actionDeleteFromHA ->
            IF haItem /= Nil
            THEN LET r == RemoveItem(w.ha, entityID, haItem[1].Title, fail)
                 IN IF r.err
                    THEN [err |-> <<"deleting from HA", si.ID>>, w |-> w,
                          calls |-> <<"ha.RemoveItem">>]
                    ELSE [err |-> NoErr,
                          w |-> [w EXCEPT !.ha = r.ha, !.rows = DeleteItem(@, si.ID)],
                          calls |-> <<"ha.RemoveItem", "store.DeleteItem">>]
            ELSE [err |-> NoErr, w |-> [w EXCEPT !.rows = DeleteItem(@, si.ID)],
                  calls |-> <<"store.DeleteItem">>]
      [] act = actionDeleteFromRem ->
            IF remItem /= Nil
            THEN LET r == Delete(w.rem, remItem[1].UID, fail)
                 IN IF r.err
                    THEN [err |-> <<"deleting from Reminders", si.ID>>, w |-> w,
                          calls |-> <<"rem.Delete">>]
                    ELSE [err |-> NoErr,
                          w |-> [w EXCEPT !.rem = r.rem, !.rows = DeleteItem(@, si.ID)],
                          calls |-> <<"rem.Delete", "store.DeleteItem">>]
            ELSE [err |-> NoErr, w |-> [w EXCEPT !.rows = DeleteItem(@, si.ID)],
                  calls |-> <<"store.DeleteItem">>]
      [] act = actionUpdateHA ->
            LET r == UpdateItem(w.ha, entityID, currentHATitle(si, haItem), remItem[1],
                                fail)
                si2 == [si EXCEPT !.Title = remItem[1].Title,
                                  !.LastSyncHash = ContentHash(remItem[1]),
                                  !.RemindersModified = remItem[1].ModifiedAt,
                                  !.LastSyncedAt = Now]
                u == UpsertItem(w.rows, w.nextID, si2)
            IN IF r.err
               THEN [err |-> <<"updating in HA", si.ID>>, w |-> w,
                     calls |-> <<"ha.UpdateItem">>]
               ELSE [err |-> IF u.err THEN <<"upserting item", si.ID>> ELSE NoErr,
                     w |-> [w EXCEPT !.ha = r.ha, !.rows = u.rows, !.nextID = u.nextID],
                     calls |-> <<"ha.UpdateItem", "store.UpsertItem">>]
      [] act = actionUpdateRem ->
            LET r == Update(w.rem, si.RemindersUID, haItem[1], fail)
                si2 == [si EXCEPT !.Title = haItem[1].Title,
                                  !.LastSyncHash = ContentHash(haItem[1]),
                                  !.HAModified = haItem[1].ModifiedAt,
                                  !.LastSyncedAt = Now]
                u == UpsertItem(w.rows, w.nextID, si2)
            IN IF r.err
               THEN [err |-> <<"updating in Reminders", si.ID>>, w |-> w,
                     calls |-> <<"rem.Update">>]
               ELSE [err |-> IF u.err THEN <<"upserting item", si.ID>> ELSE NoErr,
                     w |-> [w EXCEPT !.rem = r.rem, !.rows = u.rows, !.nextID = u.nextID],
                     calls |-> <<"rem.Update", "store.UpsertItem">>]

\* the UID of the first refetched item titled title, "" when there is none
TitleMatch(haItems, title) ==
    IF \E i \in 1..Len(haItems) : haItems[i].Title = title
    THEN haItems[CHOOSE i \in 1..Len(haItems) :
                    /\ haItems[i].Title = title
                    /\ \A j \in 1..(i - 1) : haItems[j].Title /= title].UID
    ELSE EmptyUID

\* fault 1: AddItem fails; fault 2: the refetch (GetItems) fails
createInHA(remItem, entityID, fault, w) ==
    LET a == AddItem(w.ha, entityID, remItem, w.nextHA, fault = 1)
        haItems == GetItems(a.ha, entityID)
        si == [ID |-> 0,
               RemindersUID |-> remItem.UID,
               HAUID |-> TitleMatch(haItems, remItem.Title),
               ListName |-> remItem.ListName,
               Title |-> remItem.Title,
               LastSyncHash |-> ContentHash(remItem),
               RemindersModified |-> remItem.ModifiedAt,
               HAModified |-> ZeroTime,
               LastSyncedAt |-> Now]
        u == UpsertItem(w.rows, w.nextID, si)
        added == [w EXCEPT !.ha = a.ha, !.nextHA = @ + 1]
    IN IF a.err
       THEN [err |-> <<"adding to HA", remItem.UID>>, w |-> w, calls |-> <<"ha.AddItem">>]
       ELSE IF fault = 2
       THEN [err |-> <<"refetching items", remItem.UID>>, w |-> added,
             calls |-> <<"ha.AddItem">>]
       ELSE [err |-> IF u.err THEN <<"upserting item", remItem.UID>> ELSE NoErr,
             w |-> [added EXCEPT !.rows = u.rows, !.nextID = u.nextID],
             calls |-> <<"ha.AddItem", "store.UpsertItem">>]

\* fault 1, 2: as for Create
createInReminders(haItem, entityID, fault, w) ==
    LET c == Create(w.rem, haItem, w.nextRem, fault)
        si == [ID |-> 0,
               RemindersUID |-> c.uid,
               HAUID |-> haItem.UID,
               ListName |-> haItem.ListName,
               Title |-> haItem.Title,
               LastSyncHash |-> ContentHash(haItem),
               RemindersModified |-> ZeroTime,
               HAModified |-> haItem.ModifiedAt,
               LastSyncedAt |-> Now]
        u == UpsertItem(w.rows, w.nextID, si)
        made == [w EXCEPT !.rem = c.rem,
                          !.nextRem = IF c.uid /= EmptyUID THEN @ + 1 ELSE @]
    IN IF c.err
       THEN [err |-> <<"creating in Reminders", haItem.UID>>, w |-> made,
             calls |-> <<"rem.Create">>]
       ELSE [err |-> IF u.err THEN <<"upserting item", haItem.UID>> ELSE NoErr,
             w |-> [made EXCEPT !.rows = u.rows, !.nextID = u.nextID],
             calls |-> <<"rem.Create", "store.UpsertItem">>]

\* counters that take every update of a row with both items for a conflict
CountEveryUpdate(stats, act, si, remItem, haItem) ==
    CASE act \in {actionCreateInHA, actionCreateInRem} ->
            [stats EXCEPT !.Created = @ + 1]
      [] act \in {actionUpdateHA, actionUpdateRem} ->
            [stats EXCEPT
                !.Updated = @ + 1,
                !.Conflicts = IF remItem /= Nil /\ haItem /= Nil THEN @ + 1 ELSE @]
      [] act \in {actionDeleteFromHA, actionDeleteFromRem} ->
            [stats EXCEPT !.Deleted = @ + 1]
      [] OTHER -> stats

\* the counters of reconcileList after a Phase-1 action that returned no error
Count(stats, act, si, remItem, haItem) ==
    CASE act \in {actionCreateInHA, actionCreateInRem} ->
            [stats EXCEPT !.Created = @ + 1]
      [] act \in {actionUpdateHA, actionUpdateRem} ->
            [stats EXCEPT
                !.Updated = @ + 1,
                !.Conflicts = IF /\ remItem /= Nil
                                 /\ haItem /= Nil
                                 /\ ContentHash(remItem[1]) /= si.LastSyncHash
                                 /\ ContentHash(haItem[1]) /= si.LastSyncHash
                              THEN @ + 1 ELSE @]
      [] act \in {actionDeleteFromHA, actionDeleteFromRem} ->
            [stats EXCEPT !.Deleted = @ + 1]
      [] OTHER -> stats

\* stats.X += ls.X in Run
AddStats(s, ls) ==
    [Created |-> s.Created + ls.Created, Updated |-> s.Updated + ls.Updated,
     Deleted |-> s.Deleted + ls.Deleted, Conflicts |-> s.Conflicts + ls.Conflicts,
     Errors |-> s.Errors + ls.Errors]

\* ------------------------------------------------------------------------
\* internal/sync: Bootstrap
\* ------------------------------------------------------------------------

\* strings.ToLower, lexeme by lexeme
LowerOf(c) == CASE c = "A" -> "a" [] c = "B" -> "b" [] OTHER -> c
ToLower(s) == [i \in 1..Len(s) |-> LowerOf(s[i])]

\* the slice FetchAll returns for one list, in the order the reminders were made
RECURSIVE SortedUIDs(_)
SortedUIDs(S) ==
    IF S = {} THEN <<>>
    ELSE LET m == CHOOSE x \in S : \A y \in S : x <= y
         IN <<m>> \o SortedUIDs(S \ {m})

remByList(remItems, listName) ==
    LET uids == SortedUIDs({u \in DOMAIN remItems : remItems[u].ListName = listName})
    IN [i \in 1..Len(uids) |-> remItems[uids[i]]]

\* matchResult: matched pairs, Reminders-only items and HA-only items.  The
\* title index keeps, for each lower-cased title, the last HA item carrying it.
matchByTitle(listName, entityID, remItems, haItems) ==
    LET has == [i \in 1..Len(haItems) |-> [haItems[i] EXCEPT !.ListName = listName]]
        keys == {ToLower(has[i].Title) : i \in 1..Len(has)}
        haByTitle(key) ==
            has[CHOOSE i \in 1..Len(has) :
                    /\ ToLower(has[i].Title) = key
                    /\ \A j \in (i + 1)..Len(has) : ToLower(has[j].Title) /= key]
        IsMatched(r) == ToLower(r.Title) \in keys
        NotMatched(r) == ToLower(r.Title) \notin keys
        both == SelectSeq(remItems, IsMatched)
        matchedHATitles == {ToLower(both[i].Title) : i \in 1..Len(both)}
        HAOnly(h) == ToLower(h.Title) \notin matchedHATitles
    IN [listName |-> listName,
        entityID |-> entityID,
        matched |-> [i \in 1..Len(both) |->
                        [rem |-> both[i], ha |-> haByTitle(ToLower(both[i].Title))]],
        remOnly |-> SelectSeq(remItems, NotMatched),
        haOnly |-> SelectSeq(has, HAOnly)]

\* confirm: only "y" and "yes" proceed
\* a reader that has no line to give: scanner.Scan() is false
NoInput == "<no input>"

\* strings.TrimSpace(strings.ToLower(...)) of the answers of the model
AnswerText(answer) == CASE answer = "Y" -> "y" [] OTHER -> answer

\* a prompt whose default is yes
confirmDefaultYes(answer) ==
    answer = NoInput \/ AnswerText(answer) \in {"y", "yes", ""}

confirm(answer) == answer /= NoInput /\ AnswerText(answer) \in {"y", "yes"}

\* a bootstrap that takes the remote item's hash for the baseline of a pair
matchedBaselineRemote(m) == ContentHash(m.ha)

\* the LastSyncHash Bootstrap.execute writes for a matched pair
matchedBaseline(m) == ContentHash(m.rem)

\* one iteration of one of the three loops of Bootstrap.execute on the world w;
\* fail: its adapter call fails for an external reason
bootstrapStep(r, kind, m, fail, w) ==
    IF kind = "matched"
    THEN LET si == [ID |-> 0,
                    RemindersUID |-> m.rem.UID,
                    HAUID |-> m.ha.UID,
                    ListName |-> r.listName,
                    Title |-> m.rem.Title,
                    LastSyncHash |-> matchedBaseline(m),
                    RemindersModified |-> m.rem.ModifiedAt,
                    HAModified |-> m.ha.ModifiedAt,
                    LastSyncedAt |-> Now]
             u == UpsertItem(w.rows, w.nextID, si)
         IN [err |-> u.err, w |-> [w EXCEPT !.rows = u.rows, !.nextID = u.nextID]]
    ELSE IF kind = "remOnly"
    THEN LET a == AddItem(w.ha, r.entityID, m, w.nextHA, fail)
             si == [ID |-> 0,
                    RemindersUID |-> m.UID,
                    HAUID |-> TitleMatch(GetItems(a.ha, r.entityID), m.Title),
                    ListName |-> r.listName,
                    Title |-> m.Title,
                    LastSyncHash |-> ContentHash(m),
                    RemindersModified |-> m.ModifiedAt,
                    HAModified |-> ZeroTime,
                    LastSyncedAt |-> Now]
             u == UpsertItem(w.rows, w.nextID, si)
         IN IF a.err THEN [err |-> TRUE, w |-> w]
            ELSE [err |-> u.err,
                  w |-> [w EXCEPT !.ha = a.ha, !.nextHA = @ + 1,
                                  !.rows = u.rows, !.nextID = u.nextID]]
    ELSE LET c == Create(w.rem, m, w.nextRem, IF fail THEN 1 ELSE 0)
             si == [ID |-> 0,
                    RemindersUID |-> c.uid,
                    HAUID |-> m.UID,
                    ListName |-> r.listName,
                    Title |-> m.Title,
                    LastSyncHash |-> ContentHash(m),
                    RemindersModified |-> ZeroTime,
                    HAModified |-> m.ModifiedAt,
                    LastSyncedAt |-> Now]
             u == UpsertItem(w.rows, w.nextID, si)
         IN IF c.err THEN [err |-> TRUE, w |-> w]
            ELSE [err |-> u.err,
                  w |-> [w EXCEPT !.rem = c.rem, !.nextRem = @ + 1,
                                  !.rows = u.rows, !.nextID = u.nextID]]

\* the iterations of Bootstrap.execute for one matchResult, in order
\* an execute without its loop over the HA-only items
bootstrapWorkNoHAOnly(r) ==
    [i \in 1..Len(r.matched) |-> [kind |-> "matched", m |-> r.matched[i]]]
    \o [i \in 1..Len(r.remOnly) |-> [kind |-> "remOnly", m |-> r.remOnly[i]]]

bootstrapWork(r) ==
    [i \in 1..Len(r.matched) |-> [kind |-> "matched", m |-> r.matched[i]]]
    \o [i \in 1..Len(r.remOnly) |-> [kind |-> "remOnly", m |-> r.remOnly[i]]]
    \o [i \in 1..Len(r.haOnly) |-> [kind |-> "haOnly", m |-> r.haOnly[i]]]

\* Bootstrap.execute from its iteration i on: it returns at the first error.
\* failAt: the iteration whose adapter call fails, 0 for none.
RECURSIVE bootstrapExecute(_, _, _, _)
bootstrapExecute(r, i, failAt, w) ==
    LET work == bootstrapWork(r)
    IN IF i > Len(work) THEN [err |-> FALSE, w |-> w]
       ELSE LET one == bootstrapStep(r, work[i].kind, work[i].m, failAt = i, w)
            IN IF one.err THEN one
               ELSE bootstrapExecute(r, i + 1, failAt, one.w)

\* the loop of Bootstrap.execute over the results, from result k on.  failAt
\* is <<k, i>>: iteration i of result k fails; <<0, 0>> for no failure.
RECURSIVE bootstrapExecuteAll(_, _, _, _)
bootstrapExecuteAll(results, k, failAt, w) ==
    IF k > Len(results) THEN [err |-> FALSE, w |-> w]
    ELSE LET one == bootstrapExecute(results[k], 1,
                                     IF failAt[1] = k THEN failAt[2] ELSE 0, w)
         IN IF one.err THEN one
            ELSE bootstrapExecuteAll(results, k + 1, failAt, one.w)

\* ------------------------------------------------------------------------
\* State
\* ------------------------------------------------------------------------

VARIABLES
    listMappings,   \* the configured mapping: list name -> entity id
    rem,            \* Apple Reminders: UID -> item
    ha,             \* Home Assistant: entity id -> item list
    store,          \* the ledger rows
    nextID,         \* the next AUTOINCREMENT id of the ledger
    nextRem,        \* the next UID Reminders hands out
    nextHA,         \* the next UID Home Assistant hands out
    edits,          \* user edits and failed adapter calls so far
    pc,             \* "idle", "run" (in Run, between mappings), "list" (in
                    \* reconcileList), "done" (the pass has returned)
    remByUID,       \* Run / ReconcileEntity: the fetched reminders by UID
    pending,        \* Run: the list names still to be reconciled
    listName,       \* reconcileList: its list
    haByUID,        \* reconcileList: the fetched HA items by UID
    stateTodo,      \* reconcileList: the ledger rows Phase 1 has yet to process
    remTodo,        \* reconcileList: the new reminders yet to be created in HA
    haTodo,         \* reconcileList: the new HA items yet to be created locally
    ls,             \* reconcileList: its Stats
    lsErr,          \* reconcileList: its firstErr
    stats,          \* Run: the aggregate Stats; the pass's result when done
    firstErr,       \* Run: its firstErr; the pass's error when done
    pre,            \* both sides and the ledger when the pass started
    lastStep,       \* the last item the pass processed and what came of it
    synced,         \* the local UIDs of the pairs this pass synced without error
    passCalls,      \* the mutating adapter and ledger calls of this pass
    boot,           \* startSync: what its call of Bootstrap.Run did
    retry,          \* one call of homeassistant.Retry
    engine,         \* Engine.Run: its position, its context and its ticker
    ev,             \* the pass the subscription goroutine runs beside Run
    listener,       \* the subscription goroutine of Engine.Run and its events
    conv            \* an item and what the conversions make of it

world == <<rem, ha, store, nextID, nextRem, nextHA>>
passVars == <<pc, remByUID, pending, listName, haByUID, stateTodo, remTodo, haTodo,
              ls, lsErr, stats, firstErr, pre, lastStep, synced, passCalls>>
vars == <<listMappings, rem, ha, store, nextID, nextRem, nextHA, edits,
          pc, remByUID, pending, listName, haByUID, stateTodo, remTodo, haTodo,
          ls, lsErr, stats, firstErr, pre, lastStep, synced, passCalls,
          boot, retry, engine, ev, listener, conv>>
others == <<retry, engine, ev, listener, conv>>

\* the world as the record the operations work on
World == [rem |-> rem, ha |-> ha, rows |-> store, nextID |-> nextID,
          nextRem |-> nextRem, nextHA |-> nextHA]

SetWorld(w) ==
    /\ rem' = w.rem
    /\ ha' = w.ha
    /\ store' = w.rows
    /\ nextID' = w.nextID
    /\ nextRem' = w.nextRem
    /\ nextHA' = w.nextHA

\* ------------------------------------------------------------------------
\* The items of the model
\* ------------------------------------------------------------------------

Entities == {"todo.shopping"}
Configs == {[l \in {"Shopping"} |-> "todo.shopping"]}

TitleA == <<"a">>
TitleB == <<"b">>

\* what the user can make of a reminder: two plain titles, and a completed
\* reminder due at nine in the morning
LocalContents ==
    {[Title |-> t, Description |-> <<>>, DueDate |-> NoDue,
      Priority |-> PriorityNone, Completed |-> FALSE] : t \in {TitleA, TitleB}}
    \cup {[Title |-> TitleA, Description |-> <<>>,
           DueDate |-> <<"2026-01-01", "T09:00:00Z">>,
           Priority |-> PriorityNone, Completed |-> TRUE]}

\* what the user can make of a Home Assistant item
RemoteContents ==
    {[summary |-> t, status |-> statusNeedsAction, description |-> <<>>, due |-> <<>>]
        : t \in {TitleA, TitleB}}
    \cup {[summary |-> TitleA, status |-> statusCompleted,
           description |-> <<>>, due |-> <<>>]}

LocalItem(uid, l, c, t) ==
    [UID |-> uid, Title |-> c.Title, Description |-> c.Description,
     DueDate |-> c.DueDate, Priority |-> c.Priority, Completed |-> c.Completed,
     ModifiedAt |-> t, ListName |-> l]

RemoteItem(uid, c) ==
    [uid |-> uid, summary |-> c.summary, status |-> c.status,
     description |-> c.description, due |-> c.due]

ContentOf(item) ==
    [Title |-> item.Title, Description |-> item.Description, DueDate |-> item.DueDate,
     Priority |-> item.Priority, Completed |-> item.Completed]

NoStep == [kind |-> "none", act |-> actionNone, row |-> <<>>, remItem |-> Nil,
           haItem |-> Nil, err |-> NoErr, calls |-> <<>>, newUID |-> EmptyUID,
           fault |-> 0, before |-> ZeroStats]

NoPre == [rem |-> <<>>, ha |-> <<>>, store |-> {}]

\* startSync has not called Bootstrap.Run
NoBoot == [called |-> FALSE, empty |-> FALSE, fetched |-> FALSE,
           prompted |-> FALSE, answer |-> "", results |-> <<>>,
           executed |-> FALSE, ok |-> FALSE, err |-> FALSE, pre |-> <<>>]

\* the nil error
NoError == [type |-> "nil", msg |-> "", wraps |-> <<>>]

\* no call of Retry is under way
RetryIdle == [pc |-> "idle", op |-> "", n |-> 0, attempt |-> 0, calls |-> 0,
              outcomes |-> <<>>, lastErr |-> NoError, cancelled |-> FALSE,
              cancelledAt |-> "", timer |-> FALSE, result |-> NoError]

\* no Engine.Run is under way.  connected: haConn.Connect succeeded; closed:
\* haConn.Close was called; ticker: "none", "running" or "stopped"; result:
\* what Run returned
EngineOff == [pc |-> "off", cancelled |-> FALSE, subscribed |-> FALSE,
              tick |-> 0, firstDone |-> FALSE, anyTick |-> FALSE,
              sinceTick |-> 0, lastErr |-> <<>>, logged |-> FALSE,
              connected |-> FALSE, closed |-> FALSE, ticker |-> "none",
              result |-> NoError]

\* no subscription goroutine has been started.  queue: the events the
\* connection holds for it; sent: how many events Home Assistant has sent;
\* event: the entity id of the event in hand; calls: the ReconcileEntity calls
\* made for that event, as <<listName, entityID>>; late: a call began after Run
\* had returned
ListenerOff == [pc |-> "off", entityToList |-> <<>>, queue |-> <<>>, sent |-> 0,
                event |-> "", calls |-> <<>>, late |-> FALSE, err |-> NoError]

\* no conversion is under way.  item: the local item; encoded, decoded: its
\* description with the priority prefix and what decoding makes of that;
\* bytes: what ContentHash feeds the digest; payload: the todo.add_item data;
\* back: the item GetItems returns for it
ConvIdle == [pc |-> "idle", item |-> <<>>, encoded |-> <<>>, decoded |-> <<>>,
             bytes |-> <<>>, payload |-> <<>>, back |-> <<>>]

\* the subscription goroutine runs no pass.  overlapped: a step of its pass
\* fell into a pass of Run; before: both sides and the ledger when the first of
\* the two began; clean: neither of the two met an error
EvIdle == [pc |-> "idle", listName |-> "", remByUID |-> <<>>, haByUID |-> <<>>,
           stateTodo |-> {}, remTodo |-> {}, haTodo |-> {},
           ls |-> ZeroStats, lsErr |-> NoErr,
           overlapped |-> FALSE, before |-> NoPre, clean |-> FALSE]

\* the pass variables when no pass is running
PassReset ==
    /\ remByUID' = <<>>
    /\ pending' = {}
    /\ listName' = ""
    /\ haByUID' = <<>>
    /\ stateTodo' = {}
    /\ remTodo' = {}
    /\ haTodo' = {}
    /\ ls' = ZeroStats
    /\ lsErr' = NoErr
    /\ stats' = ZeroStats
    /\ firstErr' = NoErr
    /\ pre' = NoPre
    /\ lastStep' = NoStep
    /\ synced' = {}
    /\ passCalls' = 0

\* The initial state: up to MaxPairs pairs that an earlier pass has synced,
\* each a plain item with the same content on both sides and its ledger row,
\* titled "a" and "b" in turn.
InitWorld(n) ==
    LET title == [i \in 1..n |-> IF i % 2 = 1 THEN TitleA ELSE TitleB]
        content(i) == [Title |-> title[i], Description |-> <<>>, DueDate |-> NoDue,
                       Priority |-> PriorityNone, Completed |-> FALSE]
        l == CHOOSE x \in DOMAIN listMappings : TRUE
    IN /\ rem = [i \in 1..n |-> LocalItem(i, l, content(i), 1)]
       /\ ha = [e \in Entities |->
                  IF e = listMappings[l]
                  THEN [i \in 1..n |->
                          [uid |-> i, summary |-> title[i],
                           status |-> statusNeedsAction,
                           description |-> <<>>, due |-> <<>>]]
                  ELSE <<>>]
       /\ store = {[ID |-> i, RemindersUID |-> i, HAUID |-> i, ListName |-> l,
                    Title |-> title[i],
                    LastSyncHash |-> ContentHash(content(i)),
                    RemindersModified |-> 1, HAModified |-> ZeroTime,
                    LastSyncedAt |-> 1] : i \in 1..n}
       /\ nextID = n + 1
       /\ nextRem = n + 1
       /\ nextHA = n + 1

\* no pass is running
InitPass ==
    /\ pc = "idle"
    /\ remByUID = <<>>
    /\ pending = {}
    /\ listName = ""
    /\ haByUID = <<>>
    /\ stateTodo = {}
    /\ remTodo = {}
    /\ haTodo = {}
    /\ ls = ZeroStats
    /\ lsErr = NoErr
    /\ stats = ZeroStats
    /\ firstErr = NoErr
    /\ pre = NoPre
    /\ lastStep = NoStep
    /\ synced = {}
    /\ passCalls = 0

Init ==
    /\ listMappings \in Configs
    /\ \E n \in 0..MaxPairs : InitWorld(n)
    /\ edits = 0
    /\ InitPass
    /\ boot = NoBoot
    /\ retry = RetryIdle
    /\ engine = EngineOff
    /\ ev = EvIdle
    /\ listener = ListenerOff
    /\ conv = ConvIdle

\* ------------------------------------------------------------------------
\* The user, editing either side while no pass is running
\* ------------------------------------------------------------------------

UserAddLocal ==
    /\ pc = "idle" /\ edits < MaxEdits /\ nextRem <= MaxUID
    /\ \E l \in DOMAIN listMappings, c \in LocalContents :
          rem' = (nextRem :> LocalItem(nextRem, l, c, Now)) @@ rem
    /\ nextRem' = nextRem + 1
    /\ edits' = edits + 1
    /\ UNCHANGED <<others, boot, listMappings, ha, store, nextID, nextHA, passVars>>

UserChangeLocal ==
    /\ pc = "idle" /\ edits < MaxEdits
    /\ \E uid \in DOMAIN rem, c \in LocalContents, t \in 1..MaxTime :
          /\ c /= ContentOf(rem[uid])
          /\ t >= rem[uid].ModifiedAt
          /\ rem' = [rem EXCEPT ![uid] = LocalItem(uid, @.ListName, c, t)]
    /\ edits' = edits + 1
    /\ UNCHANGED <<others, boot, listMappings, ha, store, nextID, nextRem, nextHA, passVars>>

UserDeleteLocal ==
    /\ pc = "idle" /\ edits < MaxEdits
    /\ \E uid \in DOMAIN rem : rem' = [u \in DOMAIN rem \ {uid} |-> rem[u]]
    /\ edits' = edits + 1
    /\ UNCHANGED <<others, boot, listMappings, ha, store, nextID, nextRem, nextHA, passVars>>

UserAddRemote ==
    /\ pc = "idle" /\ edits < MaxEdits /\ nextHA <= MaxUID
    /\ \E l \in DOMAIN listMappings, c \in RemoteContents :
          ha' = [ha EXCEPT ![listMappings[l]] = Append(@, RemoteItem(nextHA, c))]
    /\ nextHA' = nextHA + 1
    /\ edits' = edits + 1
    /\ UNCHANGED <<others, boot, listMappings, rem, store, nextID, nextRem, passVars>>

UserChangeRemote ==
    /\ pc = "idle" /\ edits < MaxEdits
    /\ \E l \in DOMAIN listMappings : \E i \in 1..Len(ha[listMappings[l]]) :
       \E c \in RemoteContents :
          /\ RemoteItem(ha[listMappings[l]][i].uid, c) /= ha[listMappings[l]][i]
          /\ ha' = [ha EXCEPT ![listMappings[l]][i] = RemoteItem(@.uid, c)]
    /\ edits' = edits + 1
    /\ UNCHANGED <<others, boot, listMappings, rem, store, nextID, nextRem, nextHA, passVars>>

UserDeleteRemote ==
    /\ pc = "idle" /\ edits < MaxEdits
    /\ \E l \in DOMAIN listMappings : \E i \in 1..Len(ha[listMappings[l]]) :
          ha' = [ha EXCEPT ![listMappings[l]] = RemoveAt(@, i)]
    /\ edits' = edits + 1
    /\ UNCHANGED <<others, boot, listMappings, rem, store, nextID, nextRem, nextHA, passVars>>

\* ------------------------------------------------------------------------
\* Reconciler.Run, Reconciler.ReconcileEntity and reconcileList, item by item
\* ------------------------------------------------------------------------

\* Whether a step may have its adapter call fail.  A failed fetch at the start
\* of Run or reconcileList changes nothing and is not counted.
MayFail(fault) == fault = 0 \/ edits < MaxEdits
Charge(fault) == edits' = IF fault = 0 THEN edits ELSE edits + 1

\* the pass begins: FetchAll over listNames, the lists in scope
Begin(listNames, fault) ==
    /\ pre' = [rem |-> rem, ha |-> ha, store |-> store]
    /\ stats' = ZeroStats
    /\ lastStep' = NoStep
    /\ synced' = {}
    /\ passCalls' = 0
    /\ IF fault = 1
       THEN /\ pc' = "done"
            /\ firstErr' = <<"fetching reminders", 0>>
            /\ remByUID' = <<>>
            /\ pending' = {}
       ELSE /\ pc' = "run"
            /\ firstErr' = NoErr
            /\ remByUID' = FetchAll(rem, listNames)
            /\ pending' = listNames
    /\ UNCHANGED <<listMappings, world, edits, listName, haByUID, stateTodo,
                   remTodo, haTodo, ls, lsErr>>

\* Reconciler.Run up to its loop over the mappings: a pass of a process that
\* is already past its start
RunStart ==
    /\ pc = "idle"
    /\ engine = EngineOff
    /\ \E fault \in {0, 1} : Begin(DOMAIN listMappings, fault)
    /\ UNCHANGED <<others, boot>>

\* Reconciler.ReconcileEntity up to its call of reconcileList
ReconcileEntityStart ==
    /\ pc = "idle"
    /\ engine = EngineOff
    /\ \E l \in DOMAIN listMappings : \E fault \in {0, 1} : Begin({l}, fault)
    /\ UNCHANGED <<others, boot>>

\* reconcileList up to its first loop: fetch the HA items and the ledger rows
ListStart ==
    /\ pc = "run"
    /\ \E l \in pending : \E fault \in {0, 1} :
        LET entityID == listMappings[l]
            haItems == GetItems(ha, entityID)
            byUID == [u \in {haItems[i].UID : i \in 1..Len(haItems)} |->
                        [(CHOOSE h \in {haItems[i] : i \in 1..Len(haItems)} : h.UID = u)
                            EXCEPT !.ListName = l]]
            stateItems == GetAllItemsForList(store, l)
            processedRemUIDs == {si.RemindersUID : si \in stateItems} \ {EmptyUID}
            processedHAUIDs == {si.HAUID : si \in stateItems} \ {EmptyUID}
        IN /\ pending' = pending \ {l}
           /\ IF fault = 1
              THEN /\ pc' = IF pending \ {l} = {} THEN "done" ELSE "run"
                   /\ firstErr' = IF firstErr = NoErr THEN <<"fetching HA items", 0>>
                                  ELSE firstErr
                   /\ UNCHANGED <<listName, haByUID, stateTodo, remTodo, haTodo>>
              ELSE /\ pc' = "list"
                   /\ listName' = l
                   /\ haByUID' = byUID
                   /\ stateTodo' = stateItems
                   /\ remTodo' = {u \in DOMAIN remByUID :
                                    /\ remByUID[u].ListName = l
                                    /\ u \notin processedRemUIDs}
                   /\ haTodo' = DOMAIN byUID \ processedHAUIDs
                   /\ UNCHANGED firstErr
    /\ ls' = ZeroStats
    /\ lsErr' = NoErr
    /\ UNCHANGED <<others, boot, listMappings, world, edits, remByUID, stats, pre, lastStep,
                   synced, passCalls>>

\* a loop of reconcileList that ends at the first item that fails
RemainingUntilError(todo, x, err) == IF err /= NoErr THEN {} ELSE todo \ {x}

\* the items a loop of reconcileList still has to visit after item x, whether
\* x failed (continue) or not
Remaining(todo, x, err) == todo \ {x}

\* what every step of reconcileList does with the result r of its item
Record(r, kind, act, row, remItem, haItem, counted, key, newUID, fault) ==
    /\ SetWorld(r.w)
    /\ lastStep' = [kind |-> kind, act |-> act, row |-> row, remItem |-> remItem,
                    haItem |-> haItem, err |-> r.err, calls |-> r.calls,
                    newUID |-> newUID, fault |-> fault, before |-> ls]
    /\ passCalls' = passCalls + Len(r.calls)
    /\ IF r.err /= NoErr
       THEN /\ ls' = [ls EXCEPT !.Errors = @ + 1]
            /\ lsErr' = IF lsErr = NoErr THEN r.err ELSE lsErr
            /\ UNCHANGED synced
       ELSE /\ ls' = counted
            /\ lsErr' = lsErr
            /\ synced' = IF act \in {actionNone, actionDeleteFromHA, actionDeleteFromRem}
                         THEN synced ELSE synced \cup {key}

\* 1. one iteration of the loop over the tracked rows: decide, execute, count
Phase1Step ==
    /\ pc = "list"
    /\ \E si \in stateTodo : \E fault \in {0, 1} :
        \E remItem \in {Lookup(remByUID, si.RemindersUID)} :
        \E haItem \in {Lookup(haByUID, si.HAUID)} :
        \E act \in {decide(si, remItem, haItem)} :
        \E r \in {execute(act, si, remItem, haItem, listMappings[listName],
                           fault = 1, World)} :
           /\ MayFail(fault) /\ Charge(fault)
           /\ fault = 1 => /\ Len(r.calls) > 0
                           /\ r.calls[1] /= "store.DeleteItem"
           /\ stateTodo' = Remaining(stateTodo, si, r.err)
           /\ Record(r, "tracked", act, <<si>>, remItem, haItem,
                     Count(ls, act, si, remItem, haItem), si.RemindersUID, EmptyUID,
                     fault)
    /\ UNCHANGED <<others, boot, listMappings, pc, remByUID, pending, listName, haByUID,
                   remTodo, haTodo, stats, firstErr, pre>>

\* a loop over the new reminders that does not wait for the loop over the
\* tracked rows
Phase2StepEarly ==
    /\ pc = "list"
    /\ nextHA <= MaxUID
    /\ \E uid \in remTodo : \E fault \in {0, 1, 2} :
        \E remItem \in {remByUID[uid]} :
        \E r \in {createInHA(remItem, listMappings[listName], fault, World)} :
           /\ MayFail(fault) /\ Charge(fault)
           /\ remTodo' = Remaining(remTodo, uid, r.err)
           /\ Record(r, "newRem", actionCreateInHA, <<>>, Ptr(remItem), Nil,
                     [ls EXCEPT !.Created = @ + 1], uid, nextHA, fault)
    /\ UNCHANGED <<others, boot, listMappings, pc, remByUID, pending, listName, haByUID,
                   stateTodo, haTodo, stats, firstErr, pre>>

\* 2. one iteration of the loop over the new reminders: createInHA
Phase2Step ==
    /\ pc = "list" /\ stateTodo = {}
    /\ nextHA <= MaxUID
    /\ \E uid \in remTodo : \E fault \in {0, 1, 2} :
        \E remItem \in {remByUID[uid]} :
        \E r \in {createInHA(remItem, listMappings[listName], fault, World)} :
           /\ MayFail(fault) /\ Charge(fault)
           /\ remTodo' = Remaining(remTodo, uid, r.err)
           /\ Record(r, "newRem", actionCreateInHA, <<>>, Ptr(remItem), Nil,
                     [ls EXCEPT !.Created = @ + 1], uid, nextHA, fault)
    /\ UNCHANGED <<others, boot, listMappings, pc, remByUID, pending, listName, haByUID,
                   stateTodo, haTodo, stats, firstErr, pre>>

\* 3. one iteration of the loop over the new HA items: createInReminders
Phase3Step ==
    /\ pc = "list" /\ stateTodo = {} /\ remTodo = {}
    /\ nextRem <= MaxUID
    /\ \E uid \in haTodo : \E fault \in {0, 1, 2} :
        \E haItem \in {haByUID[uid]} :
        \E r \in {createInReminders(haItem, listMappings[listName], fault, World)} :
           /\ MayFail(fault) /\ Charge(fault)
           /\ fault = 2 => haItem.Completed
           /\ haTodo' = Remaining(haTodo, uid, r.err)
           /\ Record(r, "newHA", actionCreateInRem, <<>>, Nil, Ptr(haItem),
                     [ls EXCEPT !.Created = @ + 1], nextRem, nextRem, fault)
    /\ UNCHANGED <<others, boot, listMappings, pc, remByUID, pending, listName, haByUID,
                   stateTodo, remTodo, stats, firstErr, pre>>

\* reconcileList returns and Run adds its result to the aggregate; after the
\* last mapping the pass returns stats and firstErr
ListEnd ==
    /\ pc = "list" /\ stateTodo = {} /\ remTodo = {} /\ haTodo = {}
    /\ pc' = IF pending = {} THEN "done" ELSE "run"
    /\ stats' = AddStats(stats, ls)
    /\ firstErr' = IF lsErr /= NoErr /\ firstErr = NoErr THEN lsErr ELSE firstErr
    /\ UNCHANGED <<others, boot, listMappings, world, edits, remByUID, pending, listName,
                   haByUID, stateTodo, remTodo, haTodo, ls, lsErr, pre, lastStep,
                   synced, passCalls>>

\* the caller has the result; nothing of the pass is kept
Return ==
    /\ pc = "done"
    /\ pc' = "idle"
    /\ engine = EngineOff
    /\ PassReset
    /\ boot' = NoBoot
    /\ UNCHANGED <<others, listMappings, world, edits>>

\* ------------------------------------------------------------------------
\* Bootstrap.Run
\* ------------------------------------------------------------------------

\* what the reader may deliver at the prompt
Answers == {"y", "Y", "yes", "n", "", NoInput}

\* the orders in which the loops over the mappings may visit them
ListOrders ==
    {o \in [1..Cardinality(DOMAIN listMappings) -> DOMAIN listMappings] :
        \A i, j \in DOMAIN o : i /= j => o[i] /= o[j]}

\* Bootstrap.Run, called by startSync: skip unless the ledger is empty; fetch,
\* match, prompt and, on y, execute.  fetchFault: one of the two fetches fails
BootstrapRun ==
    /\ pc = "idle"
    /\ engine = EngineOff
    /\ \E answer \in Answers, order \in ListOrders, fetchFault \in {0, 1} :
       \E failAt \in {<<0, 0>>} \cup ((1..Len(order)) \X (1..MaxUID)) :
        LET empty == IsEmpty(store)
            remItems == FetchAll(rem, DOMAIN listMappings)
            results == [k \in 1..Len(order) |->
                          matchByTitle(order[k], listMappings[order[k]],
                                       remByList(remItems, order[k]),
                                       GetItems(ha, listMappings[order[k]]))]
            r == bootstrapExecuteAll(results, 1, failAt, World)
            prompted == empty /\ fetchFault = 0
            runs == prompted /\ confirm(answer)
        IN /\ fetchFault = 1 => empty
           /\ failAt /= <<0, 0>> =>
                /\ runs /\ edits < MaxEdits
                /\ failAt[2] <= Len(bootstrapWork(results[failAt[1]]))
                /\ bootstrapWork(results[failAt[1]])[failAt[2]].kind /= "matched"
                /\ r.err
           /\ IF runs
              THEN /\ r.w.nextHA <= MaxUID + 1 /\ r.w.nextRem <= MaxUID + 1
                   /\ SetWorld(r.w)
              ELSE UNCHANGED world
           /\ edits' = IF failAt /= <<0, 0>> THEN edits + 1 ELSE edits
           /\ boot' = [called |-> TRUE,
                       empty |-> empty,
                       fetched |-> empty,
                       prompted |-> prompted,
                       answer |-> IF prompted THEN answer ELSE NoInput,
                       results |-> IF prompted THEN results ELSE <<>>,
                       executed |-> runs,
                       ok |-> runs /\ ~r.err,
                       err |-> fetchFault = 1 \/ (runs /\ r.err),
                       pre |-> World]
    /\ pc' = "booted"
    /\ UNCHANGED <<others, listMappings, remByUID, pending, listName, haByUID,
                   stateTodo, remTodo, haTodo, ls, lsErr, stats, firstErr, pre,
                   lastStep, synced, passCalls>>

\* startSync returns the error of Bootstrap.Run; the engine is never built
BootstrapFails ==
    /\ pc = "booted"
    /\ boot.err
    /\ pc' = "idle"
    /\ boot' = NoBoot
    /\ UNCHANGED <<others, listMappings, world, edits, remByUID, pending, listName,
                   haByUID, stateTodo, remTodo, haTodo, ls, lsErr, stats, firstErr,
                   pre, lastStep, synced, passCalls>>

\* startSync goes on whatever Bootstrap.Run's boolean says: RunOnce, or the
\* immediate pass of Engine.Run.  What a bootstrap that found rows did is not
\* kept beyond this point.
FirstPass ==
    /\ pc = "booted"
    /\ ~boot.err
    /\ \E fault \in {0, 1} : Begin(DOMAIN listMappings, fault)
    /\ boot' = IF boot.empty THEN boot ELSE NoBoot
    /\ UNCHANGED others

Next ==
    \/ UserAddLocal
    \/ UserChangeLocal
    \/ UserDeleteLocal
    \/ UserAddRemote
    \/ UserChangeRemote
    \/ UserDeleteRemote
    \/ RunStart
    \/ ReconcileEntityStart
    \/ ListStart
    \/ Phase1Step
    \/ Phase2Step
    \/ Phase3Step
    \/ ListEnd
    \/ Return
    \/ BootstrapRun
    \/ BootstrapFails
    \/ FirstPass

Spec == Init /\ [][Next]_vars

\* ------------------------------------------------------------------------
\* The bootstrap on arbitrary lists: any titles out of "a", "A" and "b" on
\* either side, an empty ledger, and Bootstrap.Run applied to them
\* ------------------------------------------------------------------------

TitleUpperA == <<"A">>
MatchTitles == {TitleA, TitleUpperA, TitleB}

\* any lists and an empty ledger; used: the disturbances already spent
InitLists(used) ==
    /\ listMappings \in Configs
    /\ \E nl \in 0..MaxItems, nh \in 0..MaxItems :
       \E lt \in [1..nl -> MatchTitles], ht \in [1..nh -> MatchTitles] :
        LET l == CHOOSE x \in DOMAIN listMappings : TRUE
            plain(t) == [Title |-> t, Description |-> <<>>, DueDate |-> NoDue,
                         Priority |-> PriorityNone, Completed |-> FALSE]
        IN /\ rem = [i \in 1..nl |-> LocalItem(i, l, plain(lt[i]), 1)]
           /\ ha = [e \in Entities |->
                      IF e = listMappings[l]
                      THEN [i \in 1..nh |->
                              [uid |-> i, summary |-> ht[i],
                               status |-> statusNeedsAction,
                               description |-> <<>>, due |-> <<>>]]
                      ELSE <<>>]
           /\ nextRem = nl + 1
           /\ nextHA = nh + 1
    /\ store = {}
    /\ nextID = 1
    /\ edits = used
    /\ InitPass
    /\ boot = NoBoot
    /\ retry = RetryIdle
    /\ engine = EngineOff
    /\ ev = EvIdle
    /\ listener = ListenerOff
    /\ conv = ConvIdle

\* no adapter call fails
InitMatch == InitLists(MaxEdits)

NextMatch ==
    \/ BootstrapRun
    \/ BootstrapFails

SpecMatch == InitMatch /\ [][NextMatch]_vars

\* the bootstrap on arbitrary lists and the pass startSync runs after it
NextBootPass ==
    \/ BootstrapRun
    \/ BootstrapFails
    \/ FirstPass
    \/ ListStart
    \/ Phase1Step
    \/ Phase2Step
    \/ Phase3Step
    \/ ListEnd
    \/ Return

SpecBootPass == InitMatch /\ [][NextBootPass]_vars

\* the bootstrap on arbitrary lists with one adapter call that may fail
InitBootFail == InitLists(MaxEdits - 1)

NextBootFail ==
    \/ BootstrapRun
    \/ BootstrapFails

SpecBootFail == InitBootFail /\ [][NextBootFail]_vars

\* ------------------------------------------------------------------------
\* internal/homeassistant: Retry, and the adapter's REST calls through it
\* ------------------------------------------------------------------------

defaultMaxAttempts == 3

\* errors.New / fmt.Errorf without %w: an *errors.errorString
ErrorString(msg) == [type |-> "*errors.errorString", msg |-> msg, wraps |-> <<>>]
\* fmt.Errorf with %w: a *fmt.wrapError around err
WrapError(msg, err) == [type |-> "*fmt.wrapError", msg |-> msg, wraps |-> <<err>>]

\* context.Canceled
Canceled == ErrorString("context canceled")

\* what one request may meet: an HTTP status, or 0 for no response at all
Responses == {0, 200, 400, 401, 503}

\* haClientWrapper.CallService after the request is built: the error, if any
CallService(response) ==
    CASE response = 0 ->
            WrapError("execute service request", ErrorString("connection refused"))
      [] response = 400 -> ErrorString("message of the 400 body")
      [] response = 401 -> ErrorString("HA returned 401 Unauthorized")
      [] response >= 300 -> ErrorString("HA returned unexpected status")
      [] OTHER -> NoError

\* the adapter methods that call Retry, each with defaultMaxAttempts
AdapterOps == {"Ping", "GetItems", "AddItem", "UpdateItem", "RemoveItem"}

\* a Retry that does not look at its context before an attempt
CtxErrIgnored(r) == NoError

\* ctx.Err() at the head of an attempt
CtxErr(r) == IF r.cancelled THEN Canceled ELSE NoError

\* a loop that goes round once more
MoreAttemptsOneMore(attempt, n) == attempt < n

\* attempt < maxAttempts-1: another attempt follows this one
MoreAttempts(attempt, n) == attempt < n - 1

syncVars == <<listMappings, rem, ha, store, nextID, nextRem, nextHA, edits,
              pc, remByUID, pending, listName, haByUID, stateTodo, remTodo, haTodo,
              ls, lsErr, stats, firstErr, pre, lastStep, synced, passCalls>>

\* Retry is entered: by an adapter method with defaultMaxAttempts, or directly
\* with any maxAttempts; the context may be cancelled already
RetryEnter ==
    /\ retry.pc = "idle"
    /\ \E op \in AdapterOps \cup {"direct"}, n \in 0..MaxAttempts, c \in BOOLEAN :
        /\ op \in AdapterOps => n = defaultMaxAttempts
        /\ retry' = [RetryIdle EXCEPT
                        !.pc = IF n > 0 THEN "check" ELSE "returned",
                        !.op = op, !.n = n, !.cancelled = c,
                        !.cancelledAt = IF c THEN "before" ELSE "",
                        !.result = IF n > 0 THEN NoError
                                   ELSE WrapError("all attempts failed", NoError)]
    /\ UNCHANGED <<syncVars, boot, listener, conv, engine, ev>>

\* the context is cancelled while Retry runs
CtxCancel ==
    /\ retry.pc \in {"check", "call", "wait"}
    /\ ~retry.cancelled
    /\ retry' = [retry EXCEPT !.cancelled = TRUE, !.cancelledAt = retry.pc]
    /\ UNCHANGED <<syncVars, boot, listener, conv, engine, ev>>

\* the head of the loop body: if err := ctx.Err(); err != nil
RetryCheck ==
    /\ retry.pc = "check"
    /\ retry' = IF CtxErr(retry) /= NoError
                THEN [retry EXCEPT !.pc = "returned",
                                   !.result = WrapError("retry cancelled", CtxErr(retry))]
                ELSE [retry EXCEPT !.pc = "call"]
    /\ UNCHANGED <<syncVars, boot, listener, conv, engine, ev>>

\* lastErr = fn(), and what the loop does with it
RetryInvoke ==
    /\ retry.pc = "call"
    /\ \E response \in Responses :
        LET err == CallService(response)
            r == [retry EXCEPT !.calls = @ + 1,
                               !.outcomes = Append(@, err),
                               !.lastErr = err]
        IN retry' = IF err = NoError
                    THEN [r EXCEPT !.pc = "returned", !.result = NoError]
                    ELSE IF MoreAttempts(r.attempt, r.n)
                         THEN [r EXCEPT !.pc = "wait", !.timer = FALSE]
                         ELSE [r EXCEPT !.pc = "returned",
                                        !.result = WrapError("all attempts failed", err)]
    /\ UNCHANGED <<syncVars, boot, listener, conv, engine, ev>>

\* the channel of time.After(delay) becomes ready
TimerFires ==
    /\ retry.pc = "wait"
    /\ ~retry.timer
    /\ retry' = [retry EXCEPT !.timer = TRUE]
    /\ UNCHANGED <<syncVars, boot, listener, conv, engine, ev>>

\* the select of the backoff: either ready case may be taken
RetrySelect ==
    /\ retry.pc = "wait"
    /\ \/ /\ retry.cancelled
          /\ retry' = [retry EXCEPT !.pc = "returned",
                                    !.result = WrapError("retry cancelled", Canceled)]
       \/ /\ retry.timer
          /\ retry' = [retry EXCEPT !.pc = "check", !.attempt = @ + 1]
    /\ UNCHANGED <<syncVars, boot, listener, conv, engine, ev>>

\* the caller has the result
RetryReturn ==
    /\ retry.pc = "returned"
    /\ retry' = RetryIdle
    /\ UNCHANGED <<syncVars, boot, listener, conv, engine, ev>>

InitRetry ==
    /\ listMappings \in Configs
    /\ InitWorld(0)
    /\ edits = MaxEdits
    /\ InitPass
    /\ boot = NoBoot
    /\ retry = RetryIdle
    /\ engine = EngineOff
    /\ ev = EvIdle
    /\ listener = ListenerOff
    /\ conv = ConvIdle

NextRetry ==
    \/ RetryEnter
    \/ CtxCancel
    \/ RetryCheck
    \/ RetryInvoke
    \/ TimerFires
    \/ RetrySelect
    \/ RetryReturn

SpecRetry == InitRetry /\ [][NextRetry]_vars

\* ------------------------------------------------------------------------
\* internal/sync: Engine.Run, the polling loop
\* ------------------------------------------------------------------------

\* a Run that gives up when a pass fails
AfterReconcileGiveUp(err) == IF err /= <<>> THEN "returned" ELSE "loop"

\* where Run goes when reconcile has returned err: on to the select, whatever
\* the error
AfterReconcile(err) == "loop"

\* Run has just been called: the engine of startSync, the context live
EngineCalled == [EngineOff EXCEPT !.pc = "start"]

\* a Run that returns when the connection cannot be opened
AfterConnectGiveUp(ok) == IF ok THEN "first" ELSE "returned"

\* where Run goes after haConn.Connect: on to the ticker and the first pass,
\* connected or not
AfterConnect(ok) == "first"

\* the entity ids Run subscribes to
entityIDs(m) == {m[l] : l \in DOMAIN m}

\* the reverse mappings Run may build: for an entity id that several list
\* names map to, the list name the loop over the map visits last
entityToList(m) == {f \in [entityIDs(m) -> DOMAIN m] : \A e \in entityIDs(m) : m[f[e]] = e}

\* the goroutine Run starts when the connection is open, before it calls
\* SubscribeChanges
ListenerStarted(f) == [ListenerOff EXCEPT !.pc = "started", !.entityToList = f]

\* a return of Run that leaves the connection open
RunReturnsLeavesOpen(e) ==
    [e EXCEPT !.pc = "returned", !.result = CtxErr(e), !.ticker = "stopped"]

\* return ctx.Err() and the deferred calls: ticker.Stop(), and haConn.Close()
\* when Connect had succeeded
RunReturns(e) ==
    [e EXCEPT !.pc = "returned", !.result = CtxErr(e), !.ticker = "stopped",
              !.closed = e.connected]

\* Run up to the ticker: the WebSocket connects and the listener goroutine is
\* started, or there is no connection and the engine only polls
EngineConnect ==
    /\ engine.pc = "start"
    /\ \E ok \in BOOLEAN :
        /\ engine' = [engine EXCEPT !.pc = AfterConnect(ok),
                                    !.subscribed = ok,
                                    !.connected = ok,
                                    !.ticker = "running"]
        /\ \E f \in entityToList(listMappings) :
              listener' = IF ok THEN ListenerStarted(f) ELSE listener
    /\ UNCHANGED <<syncVars, boot, conv, retry, ev>>

\* the ticker delivers a tick on its channel of capacity one; a tick that
\* finds the channel full is dropped
Tick ==
    /\ engine.pc \in {"first", "pass", "loop", "ticked"}
    /\ engine.tick = 0
    /\ engine' = [engine EXCEPT !.tick = 1]
    /\ UNCHANGED <<syncVars, boot, listener, conv, retry, ev>>

\* e.reconcile(ctx) is called, by the immediate first pass or for a tick
EngineReconcile ==
    /\ engine.pc \in {"first", "ticked"}
    /\ pc = "idle"
    /\ \E fault \in {0, 1} : Begin(DOMAIN listMappings, fault)
    /\ engine' = [engine EXCEPT !.pc = "pass",
                                !.firstDone = TRUE,
                                !.sinceTick = @ + 1]
    /\ UNCHANGED <<boot, listener, conv, retry, ev>>

\* e.reconcile(ctx) returns: an error is logged, and Run goes on
EngineReconcileReturns ==
    /\ engine.pc = "pass"
    /\ pc = "done"
    /\ pc' = "idle"
    /\ PassReset
    /\ engine' = [engine EXCEPT !.pc = AfterReconcile(firstErr),
                                !.lastErr = firstErr,
                                !.logged = (firstErr /= NoErr)]
    /\ UNCHANGED <<listMappings, world, edits, boot, listener, conv, retry, ev>>

\* the select of the loop: ctx.Done() or ticker.C, whichever is ready
EngineSelect ==
    /\ engine.pc = "loop"
    /\ \/ /\ engine.cancelled
          /\ engine' = RunReturns(engine)
       \/ /\ engine.tick = 1
          /\ engine' = [engine EXCEPT !.pc = "ticked", !.tick = 0,
                                      !.anyTick = TRUE, !.sinceTick = 0]
    /\ UNCHANGED <<syncVars, boot, listener, conv, retry, ev>>

\* SIGTERM or SIGINT cancels the context of startSync
EngineCancel ==
    /\ engine.pc \in {"start", "first", "pass", "loop", "ticked"}
    /\ ~engine.cancelled
    /\ engine' = [engine EXCEPT !.cancelled = TRUE]
    /\ UNCHANGED <<syncVars, boot, listener, conv, retry, ev>>

\* the daemon with a ledger that earlier runs have filled, and what the user
\* has edited since on either side
InitEngine ==
    /\ listMappings \in Configs
    /\ \E n \in 0..MaxPairs : InitWorld(n)
    /\ edits = MaxEdits - 1
    /\ InitPass
    /\ boot = NoBoot
    /\ retry = RetryIdle
    /\ engine = EngineCalled
    /\ ev = EvIdle
    /\ listener = ListenerOff
    /\ conv = ConvIdle

\* what the engine and its pass do; the ticker and the signal apart
EngineStep ==
    \/ EngineConnect
    \/ EngineReconcile
    \/ ListStart
    \/ Phase1Step
    \/ Phase2Step
    \/ Phase3Step
    \/ ListEnd
    \/ EngineReconcileReturns
    \/ EngineSelect

AnyUserEdit ==
    \/ UserAddLocal
    \/ UserChangeLocal
    \/ UserDeleteLocal
    \/ UserAddRemote
    \/ UserChangeRemote
    \/ UserDeleteRemote

\* the edits the user made before Run came to its first pass
UserEdit == engine.pc = "start" /\ AnyUserEdit

NextEngine ==
    \/ EngineStep
    \/ Tick
    \/ EngineCancel
    \/ UserEdit

SpecEngine == InitEngine /\ [][NextEngine]_vars

\* the goroutine of Run is scheduled and its calls return; the ticker keeps
\* firing.  Nothing says the context is ever cancelled or the user ever edits.
SpecEngineFair == SpecEngine /\ WF_vars(EngineStep) /\ WF_vars(Tick)

\* the select of the loop takes the ctx.Done() case
EngineReturn == EngineSelect /\ engine'.pc = "returned"

\* a select with several ready cases picks one of them at random, so a case
\* that is ready every time the loop comes round is taken in the end
SpecEngineStop == SpecEngineFair /\ SF_vars(EngineReturn)

\* ------------------------------------------------------------------------
\* internal/sync: the listener goroutine of Engine.Run calls ReconcileEntity
\* while Run's own goroutine calls Reconciler.Run; the Reconciler has no lock
\* ------------------------------------------------------------------------

\* a pass of Run is under way
RunInProgress == pc \in {"run", "list"}

\* a step of the listener's pass: whether it falls into a pass of Run
EvStep(e) == [e EXCEPT !.overlapped = @ \/ RunInProgress]

\* the world with the listener's pass unchanged by a step of Run and the
\* pass variables of Run unchanged by a step of the listener
runVars == <<pc, remByUID, pending, listName, haByUID, stateTodo, remTodo, haTodo,
             ls, lsErr, stats, firstErr, pre, lastStep, synced, passCalls>>

\* the callback of SubscribeChanges: ReconcileEntity up to reconcileList, once
EvStart ==
    /\ ev.pc = "idle"
    /\ ~ev.overlapped
    /\ \E l \in DOMAIN listMappings :
        ev' = [EvStep(ev) EXCEPT
                 !.pc = "run",
                 !.listName = l,
                 !.remByUID = FetchAll(rem, {l}),
                 !.before = IF RunInProgress THEN pre
                            ELSE [rem |-> rem, ha |-> ha, store |-> store]]
    /\ UNCHANGED <<listMappings, world, edits, runVars, boot, listener, conv, retry, engine>>

\* reconcileList of the listener's pass up to its first loop
EvListStart ==
    /\ ev.pc = "run"
    /\ LET l == ev.listName
           haItems == GetItems(ha, listMappings[l])
           byUID == [u \in {haItems[i].UID : i \in 1..Len(haItems)} |->
                       [(CHOOSE h \in {haItems[i] : i \in 1..Len(haItems)} : h.UID = u)
                           EXCEPT !.ListName = l]]
           stateItems == GetAllItemsForList(store, l)
           processedRemUIDs == {si.RemindersUID : si \in stateItems} \ {EmptyUID}
           processedHAUIDs == {si.HAUID : si \in stateItems} \ {EmptyUID}
       IN ev' = [EvStep(ev) EXCEPT
                    !.pc = "list",
                    !.haByUID = byUID,
                    !.stateTodo = stateItems,
                    !.remTodo = DOMAIN ev.remByUID \ processedRemUIDs,
                    !.haTodo = DOMAIN byUID \ processedHAUIDs]
    /\ UNCHANGED <<listMappings, world, edits, runVars, boot, listener, conv, retry, engine>>

\* what a step of reconcileList that came to r leaves in the listener's pass
EvRecord(e, r, counted) ==
    IF r.err /= NoErr
    THEN [e EXCEPT !.ls = [@ EXCEPT !.Errors = @ + 1],
                   !.lsErr = IF @ = NoErr THEN r.err ELSE @]
    ELSE [e EXCEPT !.ls = counted]

EvPhase1Step ==
    /\ ev.pc = "list"
    /\ \E si \in ev.stateTodo : \E fault \in {0, 1} :
        \E remItem \in {Lookup(ev.remByUID, si.RemindersUID)} :
        \E haItem \in {Lookup(ev.haByUID, si.HAUID)} :
        \E act \in {decide(si, remItem, haItem)} :
        \E r \in {execute(act, si, remItem, haItem, listMappings[ev.listName],
                           fault = 1, World)} :
           /\ MayFail(fault) /\ Charge(fault)
           /\ fault = 1 => /\ Len(r.calls) > 0
                           /\ r.calls[1] /= "store.DeleteItem"
           /\ SetWorld(r.w)
           /\ ev' = [EvRecord(EvStep(ev), r, Count(ev.ls, act, si, remItem, haItem))
                        EXCEPT !.stateTodo = Remaining(@, si, r.err)]
    /\ UNCHANGED <<listMappings, runVars, boot, listener, conv, retry, engine>>

EvPhase2Step ==
    /\ ev.pc = "list" /\ ev.stateTodo = {}
    /\ nextHA <= MaxUID
    /\ \E uid \in ev.remTodo : \E fault \in {0, 1, 2} :
        \E r \in {createInHA(ev.remByUID[uid], listMappings[ev.listName], fault, World)} :
           /\ MayFail(fault) /\ Charge(fault)
           /\ SetWorld(r.w)
           /\ ev' = [EvRecord(EvStep(ev), r, [ev.ls EXCEPT !.Created = @ + 1])
                        EXCEPT !.remTodo = Remaining(@, uid, r.err)]
    /\ UNCHANGED <<listMappings, runVars, boot, listener, conv, retry, engine>>

EvPhase3Step ==
    /\ ev.pc = "list" /\ ev.stateTodo = {} /\ ev.remTodo = {}
    /\ nextRem <= MaxUID
    /\ \E uid \in ev.haTodo : \E fault \in {0, 1, 2} :
        \E r \in {createInReminders(ev.haByUID[uid], listMappings[ev.listName],
                                     fault, World)} :
           /\ MayFail(fault) /\ Charge(fault)
           /\ fault = 2 => ev.haByUID[uid].Completed
           /\ SetWorld(r.w)
           /\ ev' = [EvRecord(EvStep(ev), r, [ev.ls EXCEPT !.Created = @ + 1])
                        EXCEPT !.haTodo = Remaining(@, uid, r.err)]
    /\ UNCHANGED <<listMappings, runVars, boot, listener, conv, retry, engine>>

\* reconcileList and ReconcileEntity return to the callback, which logs
EvListEnd ==
    /\ ev.pc = "list"
    /\ ev.stateTodo = {} /\ ev.remTodo = {} /\ ev.haTodo = {}
    /\ ev' = [EvStep(ev) EXCEPT !.pc = "done"]
    /\ UNCHANGED <<listMappings, world, edits, runVars, boot, listener, conv, retry, engine>>

\* the user edits while neither pass runs, before the two meet
ConcEdit == ev.pc = "idle" /\ AnyUserEdit

\* a pass of Run for a tick, up to the one that meets the listener's pass
ConcRunStart == ev.pc /= "done" /\ ~ev.overlapped /\ RunStart

\* Run's pass returns while the listener's pass has yet to finish
ConcReturn == ev.pc /= "done" /\ Return

\* both passes have returned and the next tick starts a pass of Run
FurtherPassStart ==
    /\ pc = "done"
    /\ ev.pc = "done"
    /\ ev.overlapped
    /\ Begin(DOMAIN listMappings, 0)
    /\ ev' = [ev EXCEPT !.pc = "settled",
                        !.clean = /\ firstErr = NoErr /\ stats.Errors = 0
                                  /\ ev.lsErr = NoErr]
    /\ UNCHANGED <<boot, listener, conv, retry, engine>>

\* synced pairs, at most one thing the user did to them, then a pass of Run
\* and a pass of the listener at the same time
InitConc ==
    /\ listMappings \in Configs
    /\ \E n \in 0..MaxPairs : InitWorld(n)
    /\ edits = MaxEdits - 1
    /\ InitPass
    /\ boot = NoBoot
    /\ retry = RetryIdle
    /\ engine = EngineOff
    /\ ev = EvIdle
    /\ listener = ListenerOff
    /\ conv = ConvIdle

NextConc ==
    \/ ConcEdit
    \/ ConcRunStart
    \/ ListStart
    \/ Phase1Step
    \/ Phase2Step
    \/ Phase3Step
    \/ ListEnd
    \/ ConcReturn
    \/ EvStart
    \/ EvListStart
    \/ EvPhase1Step
    \/ EvPhase2Step
    \/ EvPhase3Step
    \/ EvListEnd
    \/ FurtherPassStart

SpecConc == InitConc /\ [][NextConc]_vars

\* ------------------------------------------------------------------------
\* internal/sync, internal/homeassistant: Engine.Run with the goroutine that
\* runs Adapter.SubscribeChanges and, in its callback, ReconcileEntity
\* ------------------------------------------------------------------------

\* one list, and two lists that share an entity (Config.Validate asks only for
\* non-empty names and entity ids)
ListenConfigs ==
    Configs \cup {[l \in {"Shopping", "Groceries"} |-> "todo.shopping"]}

\* the entities whose state_changed events arrive on the connection
EventEntities == Entities \cup {"light.kitchen"}

\* SubscribeChanges up to its loop: ws.SubscribeEvents succeeds or fails
ListenerSubscribe ==
    /\ listener.pc = "started"
    /\ \E ok \in BOOLEAN :
        listener' = IF ok THEN [listener EXCEPT !.pc = "select"]
                    ELSE [listener EXCEPT !.pc = "ended",
                                          !.err = ErrorString("subscribe state_changed")]
    /\ UNCHANGED <<syncVars, boot, conv, retry, engine, ev>>

\* Home Assistant reports a state change of some entity on the open connection
HAEvent ==
    /\ listener.pc \in {"select", "callback"}
    /\ ~engine.closed
    /\ listener.sent < MaxEvents
    /\ \E e \in EventEntities :
        listener' = [listener EXCEPT !.queue = Append(@, e), !.sent = @ + 1]
    /\ UNCHANGED <<syncVars, boot, conv, retry, engine, ev>>

\* ReconcileEntity up to reconcileList, for the listener's pass
EvBegin(l, fault) ==
    IF fault = 1
    THEN [EvIdle EXCEPT !.pc = "done", !.listName = l,
                        !.lsErr = <<"fetching reminders", 0>>]
    ELSE [EvIdle EXCEPT !.pc = "run", !.listName = l,
                        !.remByUID = FetchAll(rem, {l})]

\* the select of SubscribeChanges: the context is done, the connection was
\* closed under it, or an event is taken; an event of a subscribed entity
\* goes to the callback, which looks the list name up and calls
\* ReconcileEntity.  (An error on sub.Errors() is logged and changes nothing.)
ListenerSelect ==
    /\ listener.pc = "select"
    /\ \/ /\ engine.cancelled
          /\ listener' = [listener EXCEPT !.pc = "ended", !.err = CtxErr(engine)]
          /\ UNCHANGED <<ev, edits>>
       \/ /\ engine.closed
          /\ listener' = [listener EXCEPT
                            !.pc = "ended",
                            !.err = ErrorString("subscription events channel closed")]
          /\ UNCHANGED <<ev, edits>>
       \/ /\ listener.queue /= <<>>
          /\ LET e == Head(listener.queue)
             IN IF e \in entityIDs(listMappings) /\ e \in DOMAIN listener.entityToList
                THEN \E fault \in {0, 1} :
                        /\ MayFail(fault) /\ Charge(fault)
                        /\ ev' = EvBegin(listener.entityToList[e], fault)
                        /\ listener' = [listener EXCEPT
                                          !.pc = "callback",
                                          !.queue = Tail(@),
                                          !.event = e,
                                          !.calls = <<<<listener.entityToList[e], e>>>>,
                                          !.late = @ \/ engine.pc = "returned"]
                ELSE /\ listener' = [listener EXCEPT !.queue = Tail(@),
                                                     !.event = e,
                                                     !.calls = <<>>]
                     /\ UNCHANGED <<ev, edits>>
    /\ UNCHANGED <<listMappings, world, runVars, boot, conv, retry, engine>>

\* ReconcileEntity returns to the callback, which logs an error, and the
\* callback returns to the loop of SubscribeChanges
ListenerCallbackReturns ==
    /\ listener.pc = "callback"
    /\ ev.pc = "done"
    /\ listener' = [listener EXCEPT !.pc = "select"]
    /\ ev' = EvIdle
    /\ UNCHANGED <<syncVars, boot, conv, retry, engine>>

\* the daemon as startSync starts it, with either configuration; no call fails
\* and the user edits nothing while it runs
InitListen ==
    /\ listMappings \in ListenConfigs
    /\ \E n \in 0..(MaxPairs - 1) : InitWorld(n)
    /\ edits = MaxEdits
    /\ InitPass
    /\ boot = NoBoot
    /\ retry = RetryIdle
    /\ engine = EngineCalled
    /\ ev = EvIdle
    /\ listener = ListenerOff
    /\ conv = ConvIdle

\* the steps of the subscription goroutine
ListenerStep ==
    \/ ListenerSubscribe
    \/ ListenerSelect
    \/ EvListStart
    \/ EvPhase1Step
    \/ EvPhase2Step
    \/ EvPhase3Step
    \/ EvListEnd
    \/ ListenerCallbackReturns

NextListen ==
    \/ EngineStep
    \/ Tick
    \/ EngineCancel
    \/ ListenerStep
    \/ HAEvent

SpecListen == InitListen /\ [][NextListen]_vars

\* ------------------------------------------------------------------------
\* internal/model, internal/homeassistant: one reminder through the priority
\* prefix, the content hash and the way to Home Assistant and back
\* ------------------------------------------------------------------------

\* titles, notes and due dates a reminder may have: text with and without the
\* character "|", notes that begin like a priority prefix, a due date at
\* midnight UTC and one at nine
ItemTitles == {TitleA, <<"a", "|">>}
ItemTexts == {<<>>, <<"x">>, <<"|">>, <<prefixHigh, "x">>}
ItemDues == {NoDue, <<"2026-01-01", Midnight>>, <<"2026-01-01", "T09:00:00Z">>}
Priorities == {PriorityNone, PriorityHigh, PriorityMedium, PriorityLow}

Items ==
    {[Title |-> t, Description |-> d, DueDate |-> due, Priority |-> p, Completed |-> c] :
        t \in ItemTitles, d \in ItemTexts, due \in ItemDues, p \in Priorities,
        c \in BOOLEAN}

\* EncodePriorityPrefix on the item's priority and notes, and
\* DecodePriorityPrefix on the result
ConvPrefix ==
    /\ conv.pc = "item"
    /\ \E enc \in {EncodePriorityPrefix(conv.item.Priority, conv.item.Description)} :
        conv' = [conv EXCEPT !.pc = "prefixed",
                             !.encoded = enc,
                             !.decoded = DecodePriorityPrefix(enc)]
    /\ UNCHANGED <<syncVars, boot, retry, engine, ev, listener>>

\* Item.ContentHash
ConvHash ==
    /\ conv.pc = "prefixed"
    /\ conv' = [conv EXCEPT !.pc = "hashed", !.bytes = ContentHash(conv.item)]
    /\ UNCHANGED <<syncVars, boot, retry, engine, ev, listener>>

\* Adapter.AddItem: the payload of buildAddItemData goes to the server, which
\* stores the new item
ConvAdd ==
    /\ conv.pc = "hashed"
    /\ \E l \in DOMAIN listMappings :
       \E r \in {AddItem(ha, listMappings[l], conv.item, nextHA, FALSE)} :
          /\ ha' = r.ha
          /\ nextHA' = nextHA + 1
          /\ conv' = [conv EXCEPT
                        !.pc = "added",
                        !.payload = buildAddItemData(listMappings[l], conv.item)]
    /\ UNCHANGED <<listMappings, rem, store, nextID, nextRem, edits, passVars,
                   boot, retry, engine, ev, listener>>

\* Adapter.GetItems: the server returns the item, haItemToModelItem normalises it
ConvFetch ==
    /\ conv.pc = "added"
    /\ \E l \in DOMAIN listMappings :
        conv' = [conv EXCEPT !.pc = "fetched",
                             !.back = GetItems(ha, listMappings[l])[1]]
    /\ UNCHANGED <<syncVars, boot, retry, engine, ev, listener>>

\* any reminder, both sides and the ledger empty
InitItem ==
    /\ listMappings \in Configs
    /\ InitWorld(0)
    /\ edits = 0
    /\ InitPass
    /\ boot = NoBoot
    /\ retry = RetryIdle
    /\ engine = EngineOff
    /\ ev = EvIdle
    /\ listener = ListenerOff
    /\ \E i \in Items : conv = [ConvIdle EXCEPT !.pc = "item", !.item = i]

NextItem ==
    \/ ConvPrefix
    \/ ConvHash
    \/ ConvAdd
    \/ ConvFetch

SpecItem == InitItem /\ [][NextItem]_vars

\* ------------------------------------------------------------------------
\* Reconciler.Run again and again, every call of every pass succeeding.  The
\* user's edits fall between the passes and are MaxEdits at most, so from some
\* pass on the passes are alone.
\* ------------------------------------------------------------------------

\* Run with FetchAll succeeding
SettleRunStart == RunStart /\ pc' = "run"

\* reconcileList with GetItems succeeding
SettleListStart == ListStart /\ pc' = "list"

\* the loops of reconcileList with no adapter call failing for an external
\* reason
SettlePhase1Step == Phase1Step /\ edits' = edits
SettlePhase2Step == Phase2Step /\ edits' = edits
SettlePhase3Step == Phase3Step /\ edits' = edits

\* a pass, from its call to its return
SettlePass ==
    \/ SettleRunStart
    \/ SettleListStart
    \/ SettlePhase1Step
    \/ SettlePhase2Step
    \/ SettlePhase3Step
    \/ ListEnd
    \/ Return

NextSettle ==
    \/ AnyUserEdit
    \/ SettlePass

\* the caller keeps calling Run, and every call in a pass returns
SpecSettle == Init /\ [][NextSettle]_vars /\ WF_vars(SettlePass)

\* ------------------------------------------------------------------------
\* createInHA while somebody else edits the remote list: AddItem and the
\* GetItems after it are two REST calls, and between them the new item is
\* given another title on the Home Assistant side
\* ------------------------------------------------------------------------

\* the server's list after the item added last was retitled
RetitleLast(items, title) == [items EXCEPT ![Len(items)].summary = title]

\* createInHA with the item it added retitled before the refetch
createInHARaced(remItem, entityID, title, w) ==
    LET a == AddItem(w.ha, entityID, remItem, w.nextHA, FALSE)
        edited == [a.ha EXCEPT ![entityID] = RetitleLast(@, title)]
        haItems == GetItems(edited, entityID)
        si == [ID |-> 0,
               RemindersUID |-> remItem.UID,
               HAUID |-> TitleMatch(haItems, remItem.Title),
               ListName |-> remItem.ListName,
               Title |-> remItem.Title,
               LastSyncHash |-> ContentHash(remItem),
               RemindersModified |-> remItem.ModifiedAt,
               HAModified |-> ZeroTime,
               LastSyncedAt |-> Now]
        u == UpsertItem(w.rows, w.nextID, si)
    IN [err |-> IF u.err THEN <<"upserting item", remItem.UID>> ELSE NoErr,
        w |-> [w EXCEPT !.ha = edited, !.nextHA = @ + 1,
                        !.rows = u.rows, !.nextID = u.nextID],
        calls |-> <<"ha.AddItem", "store.UpsertItem">>]

\* 2. an iteration of the loop over the new reminders during which the new
\* remote item is retitled; the retitling is one of the user's edits
Phase2StepRaced ==
    /\ pc = "list" /\ stateTodo = {}
    /\ nextHA <= MaxUID
    /\ edits < MaxEdits
    /\ \E uid \in remTodo : \E title \in {TitleA, TitleB} :
        \E remItem \in {remByUID[uid]} :
        \E r \in {createInHARaced(remItem, listMappings[listName], title, World)} :
           /\ title /= remItem.Title
           /\ edits' = edits + 1
           /\ remTodo' = Remaining(remTodo, uid, r.err)
           /\ Record(r, "newRem", actionCreateInHA, <<>>, Ptr(remItem), Nil,
                     [ls EXCEPT !.Created = @ + 1], uid, nextHA, 3)
    /\ UNCHANGED <<others, boot, listMappings, pc, remByUID, pending, listName, haByUID,
                   stateTodo, haTodo, stats, firstErr, pre>>

NextRace ==
    \/ NextSettle
    \/ Phase2StepRaced

SpecRace == Init /\ [][NextRace]_vars

\* ------------------------------------------------------------------------
\* Two mapped lists with an entity each, and a reminder that the user moves
\* from the one list to the other
\* ------------------------------------------------------------------------

MoveEntities == {"todo.shopping", "todo.work"}
MoveConfig == [l \in {"Shopping", "Work"} |->
                  IF l = "Shopping" THEN "todo.shopping" ELSE "todo.work"]

\* the user moves a reminder to another mapped list; it keeps its UID
UserMoveLocal ==
    /\ pc = "idle" /\ edits < MaxEdits
    /\ \E uid \in DOMAIN rem, l \in DOMAIN listMappings, t \in 1..MaxTime :
          /\ l /= rem[uid].ListName
          /\ t >= rem[uid].ModifiedAt
          /\ rem' = [rem EXCEPT ![uid].ListName = l, ![uid].ModifiedAt = t]
    /\ edits' = edits + 1
    /\ UNCHANGED <<others, boot, listMappings, ha, store, nextID, nextRem, nextHA, passVars>>

\* up to MaxPairs synced pairs, all in the list Shopping
InitMove ==
    /\ listMappings = MoveConfig
    /\ \E n \in 0..MaxPairs :
        LET title == [i \in 1..n |-> IF i % 2 = 1 THEN TitleA ELSE TitleB]
            content(i) == [Title |-> title[i], Description |-> <<>>, DueDate |-> NoDue,
                           Priority |-> PriorityNone, Completed |-> FALSE]
        IN /\ rem = [i \in 1..n |-> LocalItem(i, "Shopping", content(i), 1)]
           /\ ha = [e \in MoveEntities |->
                      IF e = "todo.shopping"
                      THEN [i \in 1..n |->
                              [uid |-> i, summary |-> title[i],
                               status |-> statusNeedsAction,
                               description |-> <<>>, due |-> <<>>]]
                      ELSE <<>>]
           /\ store = {[ID |-> i, RemindersUID |-> i, HAUID |-> i,
                        ListName |-> "Shopping", Title |-> title[i],
                        LastSyncHash |-> ContentHash(content(i)),
                        RemindersModified |-> 1, HAModified |-> ZeroTime,
                        LastSyncedAt |-> 1] : i \in 1..n}
           /\ nextID = n + 1
           /\ nextRem = n + 1
           /\ nextHA = n + 1
    /\ edits = 0
    /\ InitPass
    /\ boot = NoBoot
    /\ retry = RetryIdle
    /\ engine = EngineOff
    /\ ev = EvIdle
    /\ listener = ListenerOff
    /\ conv = ConvIdle

NextMove ==
    \/ UserMoveLocal
    \/ UserChangeLocal
    \/ SettlePass

SpecMove == InitMove /\ [][NextMove]_vars

\* ------------------------------------------------------------------------
\* Properties
\* ------------------------------------------------------------------------

\* the last step was Phase 1 on a row whose two items were both fetched
BothPresent ==
    /\ lastStep.kind = "tracked"
    /\ lastStep.remItem /= Nil
    /\ lastStep.haItem /= Nil

\* C1: for a tracked row with both items present, the pass takes no action
\* (and makes no call) when both hashes equal LastSyncHash, calls the remote
\* update with the local item when only the local hash differs, and updates
\* the local item to the remote content when only the remote hash differs;
\* the ModifiedAt values are not consulted.
C1_DecisionTable ==
    BothPresent =>
        LET si == lastStep.row[1]
            l == lastStep.remItem[1]
            h == lastStep.haItem[1]
            remChanged == ContentHash(l) /= si.LastSyncHash
            haChanged == ContentHash(h) /= si.LastSyncHash
        IN /\ (~remChanged /\ ~haChanged) =>
                /\ lastStep.act = actionNone
                /\ lastStep.calls = <<>>
                /\ lastStep.err = NoErr
           /\ (remChanged /\ ~haChanged) =>
                /\ lastStep.act = actionUpdateHA
                /\ lastStep.calls[1] = "ha.UpdateItem"
           /\ (~remChanged /\ haChanged) =>
                /\ lastStep.act = actionUpdateRem
                /\ lastStep.calls[1] = "rem.Update"
                /\ lastStep.err = NoErr =>
                        ContentOf(rem[si.RemindersUID]) = ContentOf(h)

\* C1 witness: only the remote side changed and the local item carries the
\* later ModifiedAt, yet the local item was updated from the remote one
C1_Witness ==
    /\ BothPresent
    /\ lastStep.act = actionUpdateRem
    /\ lastStep.err = NoErr
    /\ ContentHash(lastStep.remItem[1]) = lastStep.row[1].LastSyncHash
    /\ lastStep.remItem[1].ModifiedAt > lastStep.haItem[1].ModifiedAt
    /\ ContentOf(rem[lastStep.row[1].RemindersUID]) = ContentOf(lastStep.haItem[1])

\* the remote item with this UID as GetItems returns it now, Nil when absent
FetchedHA(entityID, uid) ==
    LET items == GetItems(ha, entityID)
        at == {i \in 1..Len(items) : items[i].UID = uid}
    IN IF at = {} THEN Nil ELSE Ptr(items[CHOOSE i \in at : TRUE])

\* the local item with this UID as FetchAll returns it now, Nil when absent
FetchedRem(uid) == Lookup(FetchAll(rem, DOMAIN listMappings), uid)

\* the ledger row with this ID, Nil when it is gone
RowOf(id) ==
    IF \E r \in store : r.ID = id THEN Ptr(CHOOSE r \in store : r.ID = id) ELSE Nil

\* C2: when both hashes differ from LastSyncHash the side with the strictly
\* later ModifiedAt wins, the local side on a tie; after a pass that resolved
\* the conflict without error both items carry the winner's content and the
\* row's LastSyncHash is the winner's content hash.
C2_ConflictResolution ==
    (/\ pc = "done"
     /\ BothPresent
     /\ lastStep.err = NoErr
     /\ ContentHash(lastStep.remItem[1]) /= lastStep.row[1].LastSyncHash
     /\ ContentHash(lastStep.haItem[1]) /= lastStep.row[1].LastSyncHash) =>
        LET si == lastStep.row[1]
            l == lastStep.remItem[1]
            h == lastStep.haItem[1]
            winner == IF h.ModifiedAt > l.ModifiedAt THEN h ELSE l
            localNow == FetchedRem(si.RemindersUID)
            remoteNow == FetchedHA(listMappings[si.ListName], si.HAUID)
            rowNow == RowOf(si.ID)
        IN /\ lastStep.act = IF h.ModifiedAt > l.ModifiedAt
                             THEN actionUpdateRem ELSE actionUpdateHA
           /\ localNow /= Nil /\ ContentOf(localNow[1]) = ContentOf(winner)
           /\ remoteNow /= Nil /\ ContentOf(remoteNow[1]) = ContentOf(winner)
           /\ rowNow /= Nil /\ rowNow[1].LastSyncHash = ContentHash(winner)

\* the last step was Phase 1 on a row with exactly one of its items fetched,
\* and no adapter call was made to fail
OneSidePresent ==
    /\ lastStep.kind = "tracked"
    /\ (lastStep.remItem = Nil) /= (lastStep.haItem = Nil)
    /\ lastStep.fault = 0

\* C3: for a tracked row with exactly one side present the pass deletes the
\* item on the surviving side (the remote item of the row when the local one
\* is absent, the local item when the remote one is absent), then deletes the
\* ledger row, and counts deleted = 1.
C3_DeletePropagated ==
    OneSidePresent =>
        LET si == lastStep.row[1]
        IN /\ lastStep.err = NoErr
           /\ lastStep.remItem = Nil =>
                /\ lastStep.calls = <<"ha.RemoveItem", "store.DeleteItem">>
                /\ FetchedHA(listMappings[si.ListName], si.HAUID) = Nil
           /\ lastStep.haItem = Nil =>
                /\ lastStep.calls = <<"rem.Delete", "store.DeleteItem">>
                /\ FetchedRem(si.RemindersUID) = Nil
           /\ RowOf(si.ID) = Nil
           /\ ls.Deleted = lastStep.before.Deleted + 1

\* C4: for a local item of a mapped list whose UID is in no ledger row, the
\* pass adds exactly one item to the mapped entity and writes a ledger row
\* whose LocalUID is the item's UID and whose RemoteUID is the UID the remote
\* gave the item just added; created goes up by one.
C4_NewLocalItem ==
    (lastStep.kind = "newRem" /\ lastStep.fault = 0) =>
        LET l == lastStep.remItem[1]
        IN /\ \A r \in pre.store : r.RemindersUID /= l.UID
           /\ lastStep.err = NoErr
           /\ lastStep.calls = <<"ha.AddItem", "store.UpsertItem">>
           /\ FetchedHA(listMappings[l.ListName], lastStep.newUID) /= Nil
           /\ \E r \in store :
                /\ r.RemindersUID = l.UID
                /\ r.HAUID = lastStep.newUID
           /\ ls.Created = lastStep.before.Created + 1

\* C5: for a remote item of a mapped entity whose UID is in no ledger row
\* when the pass starts, the pass creates exactly one local item in the mapped
\* list and writes a ledger row linking the UID the create returned to the
\* remote item's UID; created goes up by one.
C5_NewRemoteItem ==
    (/\ lastStep.kind = "newHA"
     /\ lastStep.fault = 0
     /\ \A r \in pre.store : r.HAUID /= lastStep.haItem[1].UID) =>
        LET h == lastStep.haItem[1]
            made == FetchedRem(lastStep.newUID)
        IN /\ lastStep.err = NoErr
           /\ lastStep.calls = <<"rem.Create", "store.UpsertItem">>
           /\ made /= Nil /\ made[1].ListName = h.ListName
           /\ \E r \in store :
                /\ r.RemindersUID = lastStep.newUID
                /\ r.HAUID = h.UID
           /\ ls.Created = lastStep.before.Created + 1

\* the inputs p = [rem, ha, store] of a pass are unchanged: every row's
\* LastSyncHash is the content hash of its local and of its remote item, and
\* every item of a mapped list or entity is tracked by a row
Unchanged(p) ==
    /\ \A r \in p.store :
        LET items == GetItems(p.ha, listMappings[r.ListName])
        IN /\ r.RemindersUID \in DOMAIN p.rem
           /\ ContentHash(p.rem[r.RemindersUID]) = r.LastSyncHash
           /\ \E i \in 1..Len(items) :
                /\ items[i].UID = r.HAUID
                /\ ContentHash(items[i]) = r.LastSyncHash
    /\ \A u \in DOMAIN p.rem :
        p.rem[u].ListName \in DOMAIN listMappings =>
            \E r \in p.store : r.RemindersUID = u
    /\ \A l \in DOMAIN listMappings :
        \A i \in 1..Len(p.ha[listMappings[l]]) :
            \E r \in p.store : r.HAUID = p.ha[listMappings[l]][i].uid

\* C6: a pass over unchanged inputs reports created = updated = deleted = 0
\* (and no conflict or error from an item), makes no mutating adapter call
\* and no ledger write, and leaves both sides and the ledger as they were.
C6_Idempotent ==
    (pc = "done" /\ Unchanged(pre)) =>
        /\ stats = ZeroStats
        /\ passCalls = 0
        /\ rem = pre.rem
        /\ ha = pre.ha
        /\ store = pre.store

\* C6 witness: a pass has gone through two tracked rows, one of them written
\* by an earlier pass, and found nothing to do
C6_Witness ==
    /\ pc = "done"
    /\ Unchanged(pre)
    /\ firstErr = NoErr
    /\ lastStep.kind = "tracked"
    /\ Cardinality(pre.store) = 2
    /\ \E r \in pre.store : r.LastSyncedAt = Now
    /\ stats = ZeroStats

\* C7: no two ledger rows share a non-empty LocalUID, and no two ledger rows
\* share a non-empty RemoteUID, whatever bootstraps and passes have run.
C7_UniqueUIDs ==
    \A r1, r2 \in store :
        r1 /= r2 =>
            /\ r1.ID /= r2.ID
            /\ r1.RemindersUID /= EmptyUID => r1.RemindersUID /= r2.RemindersUID
            /\ r1.HAUID /= EmptyUID => r1.HAUID /= r2.HAUID

\* C7 witness: a step tried to link a second local item to a remote UID that
\* a row already carries; the ledger refused the write
C7_Witness ==
    /\ lastStep.kind \in {"newRem", "newHA"}
    /\ lastStep.fault = 0
    /\ lastStep.err /= NoErr
    /\ lastStep.err[1] = "upserting item"
    /\ Cardinality(store) >= 2

\* C8: after a pass, for every pair the pass synced without error (created on
\* the other side, update propagated, conflict resolved) the row's
\* LastSyncHash is the content hash of the local item and of the remote item
\* as they are fetched now.
C8_HashMatchesBothSides ==
    pc = "done" =>
        \A uid \in synced :
            \E r \in store :
                /\ r.RemindersUID = uid
                /\ LET localNow == FetchedRem(r.RemindersUID)
                       remoteNow == FetchedHA(listMappings[r.ListName], r.HAUID)
                   IN /\ localNow /= Nil
                      /\ remoteNow /= Nil
                      /\ r.LastSyncHash = ContentHash(localNow[1])
                      /\ r.LastSyncHash = ContentHash(remoteNow[1])

\* C9: a ledger row is deleted only once both sides are absent: right after
\* the step that deleted the row, the item with the row's LocalUID is not on
\* the local side and the item with the row's RemoteUID is not on the remote.
C9_RowDeletedWhenBothAbsent ==
    (/\ lastStep.kind = "tracked"
     /\ lastStep.err = NoErr
     /\ \E i \in 1..Len(lastStep.calls) : lastStep.calls[i] = "store.DeleteItem") =>
        LET si == lastStep.row[1]
        IN /\ RowOf(si.ID) = Nil
           /\ FetchedRem(si.RemindersUID) = Nil
           /\ FetchedHA(listMappings[si.ListName], si.HAUID) = Nil

\* one item of reconcileList has been processed in this step
ItemStep ==
    /\ pc = "list" /\ pc' = "list"
    /\ <<stateTodo, remTodo, haTodo>>' /= <<stateTodo, remTodo, haTodo>>

\* reconcileList returns in this step
ListReturns == pc = "list" /\ pc' /= "list"

\* C10: an item whose mutation fails does not end the pass: the step takes
\* that one item off the work still to do and leaves every other tracked row
\* and new item to be processed, adds one to errors and nothing to the other
\* counters, and keeps the first error; an item that succeeds leaves errors
\* and the first error alone.  reconcileList returns only when no item is
\* left, and the pass result is the sum of the counters with the first error.
C10_ErrorsDoNotAbort ==
    [][/\ ItemStep =>
            /\ Cardinality(stateTodo') + Cardinality(remTodo') + Cardinality(haTodo')
                 = Cardinality(stateTodo) + Cardinality(remTodo) + Cardinality(haTodo) - 1
            /\ stateTodo' \subseteq stateTodo
            /\ remTodo' \subseteq remTodo
            /\ haTodo' \subseteq haTodo
            /\ IF lastStep'.err /= NoErr
               THEN /\ ls' = [ls EXCEPT !.Errors = @ + 1]
                    /\ lsErr' = IF lsErr = NoErr THEN lastStep'.err ELSE lsErr
               ELSE /\ ls'.Errors = ls.Errors
                    /\ lsErr' = lsErr
       /\ ListReturns =>
            /\ stateTodo = {} /\ remTodo = {} /\ haTodo = {}
            /\ stats' = AddStats(stats, ls)
            /\ firstErr' = IF firstErr = NoErr THEN lsErr ELSE firstErr
      ]_vars

\* C10 witness: a pass has returned with one failed item, its error, and the
\* count of another item that it created after the failure
C10_Witness ==
    /\ pc = "done"
    /\ stats.Errors = 1
    /\ firstErr /= NoErr
    /\ stats.Created = 1
    /\ lastStep.err = NoErr
    /\ lastStep.kind = "newHA"

\* ------------------------------------------------------------------------
\* The first-run bootstrap
\* ------------------------------------------------------------------------

\* the answers that say yes, letter case aside
SaysYes == {"y", "Y", "yes"}

\* C12: when the answer read at the prompt is anything other than y/yes, no
\* input at all included, Bootstrap.Run returns having called no mutating
\* adapter operation and having written no ledger row: both sides, the ledger
\* and the UIDs handed out are as they were, and it reports neither success
\* nor an error.
C12_DeclineMutatesNothing ==
    (pc = "booted" /\ boot.prompted /\ boot.answer \notin SaysYes)
        => /\ World = boot.pre
           /\ ~boot.executed
           /\ ~boot.ok
           /\ ~boot.err

\* a reader with no input, while there were items to link, add and create
C12_Witness ==
    /\ pc = "booted" /\ boot.prompted /\ boot.answer = NoInput
    /\ \E k \in DOMAIN boot.results :
        Len(boot.results[k].remOnly) > 0 /\ Len(boot.results[k].haOnly) > 0

\* C13: on a first run with an empty ledger the sync command writes nothing
\* to Reminders, to Home Assistant or to the ledger unless the user has
\* answered y at the prompt: from the call of Bootstrap.Run to the return of
\* the command's pass, both sides and the ledger stay as they were.
C13_NothingWrittenUntilYes ==
    (boot.called /\ boot.empty /\ boot.answer \notin SaysYes)
        => /\ rem = boot.pre.rem
           /\ ha = boot.pre.ha
           /\ store = boot.pre.rows

\* C14: Bootstrap.Run fetches, matches, prompts and mutates only when the
\* ledger is empty at the call, and then it does fetch and, unless a fetch
\* fails, match and prompt; with a non-empty ledger it returns (false, nil)
\* having fetched nothing, prompted nobody and changed nothing.
C14_RunsIffLedgerEmpty ==
    pc = "booted" =>
        /\ boot.fetched <=> boot.pre.rows = {}
        /\ boot.prompted => boot.pre.rows = {}
        /\ boot.executed => boot.pre.rows = {}
        /\ (boot.pre.rows = {} /\ ~boot.err)
                => /\ boot.prompted
                   /\ Len(boot.results) = Cardinality(DOMAIN listMappings)
        /\ boot.pre.rows /= {}
                => /\ ~boot.prompted /\ ~boot.executed
                   /\ ~boot.ok /\ ~boot.err
                   /\ boot.results = <<>>
                   /\ World = boot.pre

\* a ledger with a row, and an item on each side that no row tracks
C14_Witness ==
    /\ pc = "booted"
    /\ boot.pre.rows /= {}
    /\ \E u \in DOMAIN rem : \A si \in store : si.RemindersUID /= u
    /\ \E e \in Entities : \E i \in 1..Len(ha[e]) :
            \A si \in store : si.HAUID /= ha[e][i].uid

\* the rows that link the local UID u, and those that link the remote UID h
RowsOfRem(u) == {si \in store : si.RemindersUID = u}
RowsOfHA(h) == {si \in store : si.HAUID = h}

\* what one mapping's matchResult asks of the state after a completed bootstrap
BootstrapDone(r) ==
    LET before == boot.pre
        oldHA == {before.ha[r.entityID][i].uid : i \in 1..Len(before.ha[r.entityID])}
        nowHA == {ha[r.entityID][i].uid : i \in 1..Len(ha[r.entityID])}
    IN /\ \A i \in 1..Len(r.matched) :
            /\ Cardinality(RowsOfRem(r.matched[i].rem.UID)) = 1
            /\ RowsOfRem(r.matched[i].rem.UID) = RowsOfHA(r.matched[i].ha.UID)
       /\ \A i \in 1..Len(r.remOnly) :
            /\ Cardinality(RowsOfRem(r.remOnly[i].UID)) = 1
            /\ \A si \in RowsOfRem(r.remOnly[i].UID) :
                    si.HAUID \in nowHA \ oldHA
       /\ \A i \in 1..Len(r.haOnly) :
            /\ Cardinality(RowsOfHA(r.haOnly[i].UID)) = 1
            /\ \A si \in RowsOfHA(r.haOnly[i].UID) :
                    si.RemindersUID \in DOMAIN rem \ DOMAIN before.rem
       \* every old item is still there, and the only new ones are one remote
       \* item per local-only item and one local item per remote-only item
       /\ oldHA \subseteq nowHA
       /\ Len(ha[r.entityID]) = Len(before.ha[r.entityID]) + Len(r.remOnly)

RECURSIVE SumOver(_, _)
SumOver(f, S) ==
    IF S = {} THEN 0
    ELSE LET x == CHOOSE y \in S : TRUE IN f[x] + SumOver(f, S \ {x})

\* C16: after a confirmed bootstrap has completed, the ledger holds exactly
\* one row per matched pair, one per local-only item and one per remote-only
\* item; a matched pair made no item on either side, each local-only item was
\* added exactly once to the remote, and each remote-only item was created
\* exactly once locally.
C16_BootstrapLinksEverything ==
    (pc = "booted" /\ boot.ok) =>
        LET rs == boot.results
            K == DOMAIN rs
        IN /\ \A k \in K : BootstrapDone(rs[k])
           /\ Cardinality(store) =
                SumOver([k \in K |-> Len(rs[k].matched) + Len(rs[k].remOnly)
                                        + Len(rs[k].haOnly)], K)
           /\ DOMAIN boot.pre.rem \subseteq DOMAIN rem
           /\ Cardinality(DOMAIN rem) = Cardinality(DOMAIN boot.pre.rem)
                + SumOver([k \in K |-> Len(rs[k].haOnly)], K)
           /\ nextRem - boot.pre.nextRem = SumOver([k \in K |-> Len(rs[k].haOnly)], K)
           /\ nextHA - boot.pre.nextHA = SumOver([k \in K |-> Len(rs[k].remOnly)], K)

\* a completed bootstrap that had a pair whose titles differ in letter case to
\* link and a local item to add
C16_Witness ==
    /\ pc = "booted" /\ boot.ok
    /\ \E k \in DOMAIN boot.results :
        /\ \E i \in 1..Len(boot.results[k].matched) :
                boot.results[k].matched[i].rem.Title
                    /= boot.results[k].matched[i].ha.Title
        /\ Len(boot.results[k].remOnly) > 0

\* the items Bootstrap.Run fetched for the mapping of the matchResult r
FetchedLocal(r) ==
    {u \in DOMAIN boot.pre.rem : boot.pre.rem[u].ListName = r.listName}
FetchedRemote(r) ==
    {boot.pre.ha[r.entityID][i].uid : i \in 1..Len(boot.pre.ha[r.entityID])}

\* the UIDs of a list of items, and whether none comes twice
UIDsOf(items) == {items[i].UID : i \in 1..Len(items)}
NoRepeat(items) == Cardinality(UIDsOf(items)) = Len(items)

\* C15: matchByTitle pairs a local item with a remote item only if their
\* titles are equal ignoring case; no local item and no remote item is in two
\* pairs; and every fetched item is in exactly one of the three result lists:
\* the local items in a pair or local-only, the remote items in a pair or
\* remote-only.
C15_MatchPartitions ==
    (pc = "booted" /\ boot.prompted) =>
        \A k \in DOMAIN boot.results :
            LET r == boot.results[k]
                pairRem == [i \in 1..Len(r.matched) |-> r.matched[i].rem]
                pairHA == [i \in 1..Len(r.matched) |-> r.matched[i].ha]
            IN /\ \A i \in 1..Len(r.matched) :
                    ToLower(pairRem[i].Title) = ToLower(pairHA[i].Title)
               /\ NoRepeat(pairRem) /\ NoRepeat(pairHA)
               /\ NoRepeat(r.remOnly) /\ NoRepeat(r.haOnly)
               /\ UIDsOf(pairRem) \cap UIDsOf(r.remOnly) = {}
               /\ UIDsOf(pairHA) \cap UIDsOf(r.haOnly) = {}
               /\ UIDsOf(pairRem) \cup UIDsOf(r.remOnly) = FetchedLocal(r)
               /\ UIDsOf(pairHA) \cup UIDsOf(r.haOnly) = FetchedRemote(r)

\* ------------------------------------------------------------------------
\* Retry
\* ------------------------------------------------------------------------

\* the errors of the invocations of fn so far, the last one apart
EarlierOutcomes == SubSeq(retry.outcomes, 1, Len(retry.outcomes) - 1)

\* C17: Retry(ctx, n, fn) invokes fn at most n times; an invocation that
\* succeeds is the last one and Retry returns nil exactly then; when all n
\* invocations failed it returns an error that wraps the failure of the last
\* one; and every REST call of the adapter enters it with n = 3.
C17_BoundedRetry ==
    retry.pc /= "idle" =>
        /\ retry.calls <= retry.n
        /\ retry.calls = Len(retry.outcomes)
        /\ \A i \in DOMAIN EarlierOutcomes : EarlierOutcomes[i] /= NoError
        /\ (retry.outcomes /= <<>> /\ retry.outcomes[Len(retry.outcomes)] = NoError)
                => retry.pc = "returned" /\ retry.result = NoError
        /\ (retry.pc = "returned" /\ retry.result = NoError)
                => /\ retry.outcomes /= <<>>
                   /\ retry.outcomes[Len(retry.outcomes)] = NoError
        /\ (retry.calls = retry.n /\ retry.n > 0
                /\ retry.outcomes[Len(retry.outcomes)] /= NoError)
                => /\ retry.pc = "returned"
                   /\ retry.result.wraps = <<retry.outcomes[retry.n]>>
        /\ retry.op \in AdapterOps => retry.n = 3

\* an adapter call all three of whose attempts failed
C17_Witness ==
    /\ retry.pc = "returned" /\ retry.op = "AddItem"
    /\ retry.calls = 3
    /\ \A i \in 1..3 : retry.outcomes[i] /= NoError
    /\ retry.result.wraps = <<retry.outcomes[3]>>

\* C18: with the context cancelled before an attempt, Retry returns an error
\* wrapping the cancellation and does not invoke fn for that attempt; with the
\* context cancelled during a backoff sleep, it returns the cancellation
\* error and invokes fn no more.
C18_CancelStopsRetry ==
    [][ (retry.cancelled /\ retry.pc \in {"check", "wait"})
            => /\ retry'.calls = retry.calls
               /\ retry'.pc /= "call"
               /\ retry.pc = "check" => retry'.pc = "returned"
               /\ retry'.pc = "returned"
                    => /\ retry'.result.type = "*fmt.wrapError"
                       /\ retry'.result.wraps = <<Canceled>> ]_vars

\* a Retry that was cancelled in its backoff after a failed attempt and has
\* returned the cancellation
C18_Witness ==
    /\ retry.pc = "returned" /\ retry.cancelledAt = "wait"
    /\ retry.calls = 1 /\ retry.n = 3
    /\ retry.result.wraps = <<Canceled>>

\* an attempt that met HTTP 401
Unauthorized == CallService(401)

\* C19: a REST call that fails with an authentication failure (HTTP 401) is
\* attempted exactly once: after the 401 there is no backoff and no further
\* attempt, Retry returns at once, and the error it returns is of a kind
\* (type and wrapped errors, the message text aside) that no transient
\* failure yields.
C19_AuthFailureIsTerminal ==
    (retry.op \in AdapterOps /\ retry.outcomes /= <<>>
        /\ retry.outcomes[1] = Unauthorized)
        => /\ retry.calls = 1
           /\ retry.pc = "returned"
           /\ retry.result.type /= WrapError("", CallService(503)).type

\* ------------------------------------------------------------------------
\* Engine.Run
\* ------------------------------------------------------------------------

\* C20: Engine.Run starts one reconcile pass at once, before it consumes any
\* tick, and from then on one pass for each tick it consumes; a pass that
\* returns an error is logged and Run goes on to the select all the same, Run
\* returns only on a cancelled context, and whenever Run waits in its select a
\* pass follows unless the context is cancelled.
C20_PassesKeepOccurring ==
    /\ [](/\ engine.anyTick => engine.firstDone
          /\ engine.pc \in {"loop", "pass"} => engine.sinceTick = 1
          /\ engine.pc = "ticked" => engine.sinceTick = 0
          /\ (engine.pc = "loop" /\ engine.lastErr /= NoErr) => engine.logged
          /\ engine.pc = "returned" => engine.cancelled)
    /\ (engine.pc = "loop") ~> (engine.pc = "pass" \/ engine.cancelled)
    /\ (engine.pc = "first") ~> (engine.pc = "pass")

\* a pass started for a tick after the pass before it returned an error
C20_Witness ==
    /\ engine.pc = "pass" /\ engine.anyTick
    /\ engine.lastErr /= NoErr /\ engine.logged
    /\ ~engine.cancelled

\* ------------------------------------------------------------------------
\* Concurrent passes
\* ------------------------------------------------------------------------

\* the UIDs of the remote items of the snapshot or state h
RemoteUIDs(h) == UNION {{h[e][i].uid : i \in 1..Len(h[e])} : e \in DOMAIN h}

\* the distinct items there were before the two passes met: the pairs a row
\* links and the items no row knows
ItemsBefore ==
    LET b == ev.before
        pairs == {si \in b.store : /\ si.RemindersUID \in DOMAIN b.rem
                                   /\ si.HAUID \in RemoteUIDs(b.ha)}
        newLocal == {u \in DOMAIN b.rem : \A si \in b.store : si.RemindersUID /= u}
        newRemote == {h \in RemoteUIDs(b.ha) : \A si \in b.store : si.HAUID /= h}
    IN Cardinality(pairs) + Cardinality(newLocal) + Cardinality(newRemote)

\* C11: when a pass of ReconcileEntity and a pass of Run have interleaved on
\* the same mapping and both have returned without error, the next pass, with
\* no edit in between, reports zero created, updated and deleted; every item
\* that was there before the two met and still is, is linked by exactly one
\* row to an item that exists on the other side; and neither side holds more
\* items than there were distinct items before.
C11_ConvergesAfterInterleaving ==
    (pc = "done" /\ ev.pc = "settled" /\ ev.clean /\ firstErr = NoErr)
        => /\ stats.Created = 0 /\ stats.Updated = 0 /\ stats.Deleted = 0
           /\ \A u \in DOMAIN ev.before.rem \cap DOMAIN rem :
                /\ Cardinality(RowsOfRem(u)) = 1
                /\ \A si \in RowsOfRem(u) : si.HAUID \in RemoteUIDs(ha)
           /\ \A h \in RemoteUIDs(ev.before.ha) \cap RemoteUIDs(ha) :
                /\ Cardinality(RowsOfHA(h)) = 1
                /\ \A si \in RowsOfHA(h) : si.RemindersUID \in DOMAIN rem
           /\ Cardinality(DOMAIN rem) <= ItemsBefore
           /\ Cardinality(RemoteUIDs(ha)) <= ItemsBefore

\* ------------------------------------------------------------------------
\* Engine.Run: its return, its connection
\* ------------------------------------------------------------------------

\* the model has no further UID to hand out: a pass that has to create an item
\* goes no further
OutOfUIDs == nextRem > MaxUID \/ nextHA > MaxUID

C23_PollingOnly ==
    /\ []((engine.pc \notin {"off", "start"} /\ ~engine.connected)
            => /\ ~engine.subscribed
               /\ listener = ListenerOff
               /\ engine.pc = "returned" => engine.cancelled)
    /\ ((engine.pc = "first" /\ ~engine.connected)
            ~> (engine.pc = "pass" /\ ~engine.anyTick))
    /\ ((engine.pc = "loop" /\ ~engine.connected)
            ~> (engine.cancelled \/ (engine.pc = "pass" /\ engine.anyTick)))

\* a pass for a tick in an engine whose connection could not be opened
C23_Witness ==
    /\ engine.pc = "pass" /\ engine.anyTick
    /\ ~engine.connected /\ ~engine.subscribed /\ ~engine.cancelled

\* ------------------------------------------------------------------------
\* Engine.Run and its subscription goroutine
\* ------------------------------------------------------------------------

\* C22: when Engine.Run has returned, no ReconcileEntity call that an event
\* triggered is still executing, and none has started after the return.
C22_DrainedOnReturn ==
    engine.pc = "returned" => (listener.pc /= "callback" /\ ~listener.late)

\* the subscription goroutine takes an event from the connection
TakesEvent ==
    /\ listener.pc = "select"
    /\ listener.queue /= <<>>
    /\ listener'.queue = Tail(listener.queue)

\* C24: an event for an entity id that is the target of a mapping makes the
\* engine call ReconcileEntity once, with the list name of that mapping and
\* the entity id, for every mapping with that target; an event for an entity
\* id that no mapping has for its target makes it call nothing.
C24_EventTriggersReconcile ==
    [][TakesEvent =>
        LET e == Head(listener.queue)
            lists == {l \in DOMAIN listMappings : listMappings[l] = e}
        IN IF lists = {}
           THEN /\ listener'.calls = <<>>
                /\ listener'.pc = "select"
                /\ ev' = ev
           ELSE \A l \in lists :
                   /\ listener'.calls = <<<<l, e>>>>
                   /\ listener'.pc = "callback"
                   /\ ev'.listName = l
                   /\ ev'.pc \in {"run", "done"}]_vars

\* ------------------------------------------------------------------------
\* The counters of a pass
\* ------------------------------------------------------------------------

\* the last step was an update whose adapter call succeeded
UpdateApplied ==
    /\ lastStep.kind = "tracked"
    /\ lastStep.act \in {actionUpdateHA, actionUpdateRem}
    /\ \/ lastStep.err = NoErr
       \/ Len(lastStep.calls) = 2

\* the row of the last step as the ledger held it when the pass began
RowBefore == CHOOSE r \in pre.store : r.ID = lastStep.row[1].ID

\* C25: a step of a pass adds one to conflicts when it applied an update (to
\* either side) and the content hashes of the local and of the remote item
\* both differed from the LastSyncHash the row had before the pass; any other
\* step, an update with only one side changed included, leaves conflicts as
\* it was.
C25_ConflictsCounted ==
    lastStep.kind /= "none" =>
        LET bothDiverged ==
                /\ lastStep.remItem /= Nil /\ lastStep.haItem /= Nil
                /\ ContentHash(lastStep.remItem[1]) /= RowBefore.LastSyncHash
                /\ ContentHash(lastStep.haItem[1]) /= RowBefore.LastSyncHash
        IN ls.Conflicts = lastStep.before.Conflicts
                            + (IF UpdateApplied /\ bothDiverged THEN 1 ELSE 0)

\* a pass has just applied an update for a row whose two items had both
\* changed, and has counted one conflict
C25_Witness ==
    /\ UpdateApplied
    /\ ContentHash(lastStep.remItem[1]) /= RowBefore.LastSyncHash
    /\ ContentHash(lastStep.haItem[1]) /= RowBefore.LastSyncHash
    /\ lastStep.before.Conflicts = 0
    /\ ls.Updated = 1 /\ ls.Conflicts = 1

\* how many items the two sides hold
NLocal(r) == Cardinality(DOMAIN r)
NRemote(h) == Cardinality(RemoteUIDs(h))

\* by how much n exceeds m, 0 when it does not
Excess(n, m) == IF n > m THEN n - m ELSE 0

\* C26: every step of a pass adds to created, updated and deleted exactly the
\* create, update and delete mutations it applied to the local and the remote
\* side; a step that only removes the ledger row of a pair whose two items
\* were both gone applies none and adds nothing to deleted.
C26_CountersMatchMutations ==
    [][ItemStep =>
        /\ ls'.Created - ls.Created
             = Excess(NLocal(rem'), NLocal(rem)) + Excess(NRemote(ha'), NRemote(ha))
        /\ ls'.Deleted - ls.Deleted
             = Excess(NLocal(rem), NLocal(rem')) + Excess(NRemote(ha), NRemote(ha'))
        /\ ls'.Updated - ls.Updated = (IF UpdateApplied' THEN 1 ELSE 0)
      ]_vars

\* ------------------------------------------------------------------------
\* The order of the phases
\* ------------------------------------------------------------------------

\* C27: in a pass over one mapping, a creation for an untracked local item
\* (Phase 2) begins only when every tracked row has had its Phase-1 action,
\* failed or not, and no Phase-1 action follows a creation.
C27_Phase1BeforePhase2 ==
    [][ItemStep =>
        /\ lastStep'.kind = "newRem" => (stateTodo = {} /\ stateTodo' = {})
        /\ lastStep'.kind = "tracked" => lastStep.kind \in {"none", "tracked"}
      ]_vars

\* a creation for a new reminder has just followed the update of a tracked row
C27_Witness ==
    /\ pc = "list"
    /\ lastStep.kind = "newRem" /\ lastStep.err = NoErr
    /\ lastStep.before.Updated = 1
    /\ ls.Created = 1

\* ------------------------------------------------------------------------
\* The item model: priority prefix, content hash, conversion round trip
\* ------------------------------------------------------------------------

\* C28: decoding the encoded description gives back the priority and the
\* description, for every priority and every description.
C28_PrefixRoundTrip ==
    conv.pc \in {"prefixed", "hashed", "added", "fetched"}
        => conv.decoded = [priority |-> conv.item.Priority,
                           description |-> conv.item.Description]

\* C29: two items that differ in Title, Description, DueDate, Priority or
\* Completed never feed the same byte string to the digest.
C29_HashInputInjective ==
    conv.pc \in {"hashed", "added", "fetched"}
        => \A other \in Items :
              other /= conv.item => ContentHash(other) /= conv.bytes

\* the day of a due date, nothing for none
DayOf(due) == IF due = NoDue THEN <<>> ELSE <<due[1]>>

\* C30: the item that comes back from Home Assistant after the local item
\* was added there has the Title, Description, Priority and Completed flag of
\* the local item, its due day, and its content hash.
C30_ConversionRoundTrip ==
    conv.pc = "fetched"
        => /\ conv.back.Title = conv.item.Title
           /\ conv.back.Description = conv.item.Description
           /\ conv.back.Priority = conv.item.Priority
           /\ conv.back.Completed = conv.item.Completed
           /\ DayOf(conv.back.DueDate) = DayOf(conv.item.DueDate)
           /\ ContentHash(conv.back) = ContentHash(conv.item)

\* ------------------------------------------------------------------------
\* Repeated passes
\* ------------------------------------------------------------------------

\* a pass has returned and reports nothing created, updated or deleted and no
\* error
ZeroPass == pc = "done" /\ stats = ZeroStats /\ firstErr = NoErr

DeletedLocal ==
    /\ lastStep.kind = "tracked"
    /\ lastStep.err = NoErr
    /\ Len(lastStep.calls) > 0 /\ lastStep.calls[1] = "rem.Delete"

\* C32: a pass deletes a reminder only for a ledger row whose HAUID is not
\* empty and is the UID of no item the pass fetched from the entity.
C32_LocalDeletedOnlyForLostRemote ==
    DeletedLocal
        => /\ lastStep.row[1].HAUID /= EmptyUID
           /\ lastStep.row[1].HAUID \notin DOMAIN haByUID

\* ------------------------------------------------------------------------
\* Updates of a tracked row
\* ------------------------------------------------------------------------

\* this step is the iteration of the first loop for a row whose decision is
\* to update Home Assistant, with no failure from outside
UpdateHAStep ==
    /\ ItemStep
    /\ lastStep'.kind = "tracked"
    /\ lastStep'.act = actionUpdateHA
    /\ lastStep'.fault = 0

\* C33: an update of the remote side goes to the item that carries, on the
\* server, the title the remote item had in this pass's fetch, whatever title
\* the ledger row holds: the call goes through, that item gets the local
\* item's title (a rename when the two differ) and no other item of the entity
\* is touched.
C33_UpdateByCurrentTitle ==
    [][UpdateHAStep =>
        LET e == listMappings[listName]
            i == FirstByTitle(ha[e], lastStep'.haItem[1].Title)
        IN /\ lastStep'.calls[1] = "ha.UpdateItem"
           /\ Len(lastStep'.calls) = 2
           /\ i > 0
           /\ Len(ha'[e]) = Len(ha[e])
           /\ ha'[e][i].uid = ha[e][i].uid
           /\ ha'[e][i].summary = lastStep'.remItem[1].Title
           /\ \A j \in 1..Len(ha[e]) : j /= i => ha'[e][j] = ha[e][j]]_vars

\* a pass has updated and renamed a remote item whose title was no longer
\* the one in the ledger row
C33_Witness ==
    /\ lastStep.kind = "tracked"
    /\ lastStep.act = actionUpdateHA
    /\ lastStep.err = NoErr
    /\ lastStep.haItem[1].Title /= RowBefore.Title
    /\ lastStep.haItem[1].Title /= lastStep.remItem[1].Title
    /\ FetchedHA(listMappings[listName], lastStep.row[1].HAUID) /= Nil
    /\ FetchedHA(listMappings[listName], lastStep.row[1].HAUID)[1].Title
            = lastStep.remItem[1].Title

\* the last step was an update that went through, ledger write included
UpdateDone == UpdateApplied /\ lastStep.err = NoErr

\* the item of the side that won the last update
Winner ==
    IF lastStep.act = actionUpdateHA THEN lastStep.remItem[1] ELSE lastStep.haItem[1]

\* C34: after an update of a tracked row the row holds the Title and the
\* content hash of the winning side, as RemindersModified the ModifiedAt of
\* the reminder fetched in this pass, as HAModified the ModifiedAt of the
\* remote item fetched in this pass, and as LastSyncedAt the time of the pass.
C34_RowAfterUpdate ==
    UpdateDone =>
        LET row == RowOf(lastStep.row[1].ID)[1]
        IN /\ row.Title = Winner.Title
           /\ row.LastSyncHash = ContentHash(Winner)
           /\ row.RemindersModified = lastStep.remItem[1].ModifiedAt
           /\ row.HAModified = lastStep.haItem[1].ModifiedAt
           /\ row.LastSyncedAt = Now

\* ------------------------------------------------------------------------
\* One action for each ledger row in a pass
\* ------------------------------------------------------------------------

\* the mappings whose reconcileList this pass has begun
ListsBegun == DOMAIN listMappings \ pending

\* this step is a creation of the second loop that wrote its ledger row
CreationWritten ==
    /\ ItemStep
    /\ lastStep'.kind = "newRem"
    /\ Len(lastStep'.calls) = 2
    /\ lastStep'.err = NoErr

\* C35: a creation of the second loop never writes a ledger row that the
\* first loop of a mapping of the same pass has had before it: the reminder it
\* creates for is the reminder of no row that was in the ledger, under a
\* mapping whose reconcileList has begun, when the pass started.
C35_OneActionPerRow ==
    [][CreationWritten =>
        \A r \in pre.store :
            r.ListName \in ListsBegun => r.RemindersUID /= lastStep'.remItem[1].UID]_vars

\* ------------------------------------------------------------------------
\* A failed mutation and the ledger
\* ------------------------------------------------------------------------

\* the last step was a tracked row whose adapter call (update or remove on
\* the remote, update or delete on the local side) returned an error
MutationFailed ==
    /\ lastStep.kind = "tracked"
    /\ lastStep.err /= NoErr
    /\ lastStep.calls \in {<<"ha.UpdateItem">>, <<"ha.RemoveItem">>,
                            <<"rem.Update">>, <<"rem.Delete">>}

\* C36: when the adapter call decided for a tracked row fails, the row is in
\* the ledger exactly as it was when the pass began, and a decision taken on
\* it with the same two items is the same again.
C36_FailedMutationKeepsRow ==
    MutationFailed
        => /\ RowOf(lastStep.row[1].ID) = Ptr(RowBefore)
           /\ lastStep.row[1] = RowBefore
           /\ decide(RowOf(lastStep.row[1].ID)[1], lastStep.remItem, lastStep.haItem)
                = lastStep.act

\* the update decided for a row has failed in the adapter, and the row is in
\* the ledger as it was
C36_Witness ==
    /\ MutationFailed
    /\ lastStep.act \in {actionUpdateHA, actionUpdateRem}
    /\ lastStep.fault = 1
    /\ RowBefore \in store

\* ------------------------------------------------------------------------
\* A bootstrap that fails part-way
\* ------------------------------------------------------------------------

\* Bootstrap.Run was confirmed and its execute returned an error
BootstrapBroke == pc = "booted" /\ boot.executed /\ boot.err

\* C37: when the execution of a confirmed bootstrap fails, the ledger is
\* empty afterwards, so that the next start runs the bootstrap again.
C37_FailedBootstrapLeavesLedgerEmpty == BootstrapBroke => IsEmpty(store)

\* ------------------------------------------------------------------------
\* The first pass after a bootstrap
\* ------------------------------------------------------------------------

\* the last step of the pass after a completed bootstrap was the row of a
\* pair the bootstrap matched by title, and the two items differ
MatchedPairStep ==
    /\ boot.ok
    /\ lastStep.kind = "tracked"
    /\ lastStep.remItem /= Nil /\ lastStep.haItem /= Nil
    /\ ContentHash(lastStep.remItem[1]) /= ContentHash(lastStep.haItem[1])
    /\ \E k \in DOMAIN boot.results : \E i \in 1..Len(boot.results[k].matched) :
            /\ boot.results[k].matched[i].rem.UID = lastStep.row[1].RemindersUID
            /\ boot.results[k].matched[i].ha.UID = lastStep.row[1].HAUID

\* C38: for a pair that a confirmed bootstrap matched and whose contents
\* differ, the row holds the local item's hash; the first pass decides to
\* update the reminder, whatever the two modification times are, gives it the
\* remote item's content and writes the remote hash, and counts one update and
\* no conflict.
C38_FirstPassTakesRemote ==
    MatchedPairStep =>
        /\ RowBefore.LastSyncHash = ContentHash(lastStep.remItem[1])
        /\ lastStep.act = actionUpdateRem
        /\ lastStep.err = NoErr
        /\ ContentOf(rem[lastStep.row[1].RemindersUID]) = ContentOf(lastStep.haItem[1])
        /\ RowOf(lastStep.row[1].ID)[1].LastSyncHash = ContentHash(lastStep.haItem[1])
        /\ ls.Updated = lastStep.before.Updated + 1
        /\ ls.Conflicts = lastStep.before.Conflicts

\* the pass after the bootstrap has ended with one update and no conflict;
\* the pair's titles differed in letter case only and the reminder, modified
\* later than the remote item, now has the remote title
C38_Witness ==
    /\ MatchedPairStep
    /\ pc = "done"
    /\ stats.Updated = 1 /\ stats.Conflicts = 0 /\ stats.Errors = 0
    /\ lastStep.remItem[1].Title /= lastStep.haItem[1].Title
    /\ ToLower(lastStep.remItem[1].Title) = ToLower(lastStep.haItem[1].Title)
    /\ Before(lastStep.haItem[1].ModifiedAt, lastStep.remItem[1].ModifiedAt)
    /\ rem[lastStep.row[1].RemindersUID].Title = lastStep.haItem[1].Title

\* ------------------------------------------------------------------------
\* Store.UpsertItem on any ledger
\* ------------------------------------------------------------------------

\* number of UpsertItem calls made on the empty ledger
MaxCalls == 2

\* the items handed to UpsertItem: either UID may be empty
StoreItems ==
    {[ID |-> 0, RemindersUID |-> u, HAUID |-> h, ListName |-> "Shopping",
      Title |-> t, LastSyncHash |-> t, RemindersModified |-> 1,
      HAModified |-> ZeroTime, LastSyncedAt |-> Now] :
        u \in 0..2, h \in 0..2, t \in {TitleA, TitleB}}

\* one call of Store.UpsertItem; lastStep keeps the item and the error, pre
\* the ledger before the call
StoreUpsert ==
    /\ passCalls < MaxCalls
    /\ \E item \in StoreItems :
       \E u \in {UpsertItem(store, nextID, item)} :
          /\ store' = u.rows
          /\ nextID' = u.nextID
          /\ pre' = [NoPre EXCEPT !.store = store]
          /\ lastStep' = [NoStep EXCEPT
                            !.kind = "upsert", !.row = <<item>>,
                            !.err = IF u.err THEN <<"UNIQUE constraint failed", item.HAUID>>
                                    ELSE NoErr]
          /\ passCalls' = passCalls + 1
    /\ UNCHANGED <<listMappings, rem, ha, nextRem, nextHA, edits, pc, remByUID,
                   pending, listName, haByUID, stateTodo, remTodo, haTodo, ls,
                   lsErr, stats, firstErr, synced, boot, others>>

\* a new, empty ledger
InitStore ==
    /\ listMappings \in Configs
    /\ InitWorld(0)
    /\ edits = 0
    /\ InitPass
    /\ boot = NoBoot
    /\ retry = RetryIdle
    /\ engine = EngineOff
    /\ ev = EvIdle
    /\ listener = ListenerOff
    /\ conv = ConvIdle

NextStore == StoreUpsert

SpecStore == InitStore /\ [][NextStore]_vars

\* UpsertItem was called with an empty RemindersUID and the HAUID of a row
\* the ledger had
UpsertByHAUID ==
    /\ lastStep.kind = "upsert"
    /\ lastStep.row[1].RemindersUID = EmptyUID
    /\ lastStep.row[1].HAUID /= EmptyUID
    /\ \E r \in pre.store : r.HAUID = lastStep.row[1].HAUID

\* C39: UpsertItem with an empty RemindersUID and the HAUID of an existing
\* row succeeds and updates that row in place: the ledger has the same number
\* of rows, and the row with that HAUID keeps its ID and has the item's fields.
C39_UpsertFallsBackToHAUID ==
    UpsertByHAUID =>
        /\ lastStep.err = NoErr
        /\ Cardinality(store) = Cardinality(pre.store)
        /\ \E r \in pre.store :
              /\ r.HAUID = lastStep.row[1].HAUID
              /\ [lastStep.row[1] EXCEPT !.ID = r.ID] \in store

\* ------------------------------------------------------------------------
\* internal/homeassistant: backoffDelay, in 64-bit arithmetic
\* ------------------------------------------------------------------------

\* the largest attempt index handed to backoffDelay
MaxIndex == 70

\* An int64 (a time.Duration, in nanoseconds) is the sequence of its eight
\* bytes, least significant first, in two's complement.
Zero64 == <<0, 0, 0, 0, 0, 0, 0, 0>>

\* 500 * time.Millisecond = 500,000,000 = 0x1DCD6500
baseDelay == <<0, 101, 205, 29, 0, 0, 0, 0>>

\* 5 * time.Second = 5,000,000,000 = 0x12A05F200
maxDelay == <<0, 242, 5, 42, 1, 0, 0, 0>>

IsNeg64(a) == a[8] >= 128

\* 1 << n in int64: the bit is lost when n is 64 or more
Shl1(n) == [i \in 1..8 |-> IF n < 64 /\ i = (n \div 8) + 1 THEN 2 ^ (n % 8) ELSE 0]

\* the carry into byte k of a * b
RECURSIVE MulCarry(_, _, _)
MulCarry(a, b, k) ==
    IF k = 1 THEN 0
    ELSE LET col == {i \in 1..8 : i <= k - 1}
             sum[n \in 0..8] ==
                 IF n = 0 THEN MulCarry(a, b, k - 1)
                 ELSE sum[n - 1] + (IF n \in col THEN a[n] * b[k - n] ELSE 0)
         IN sum[8] \div 256

\* a * b, the low 64 bits
Mul64(a, b) ==
    [k \in 1..8 |->
        LET sum[n \in 0..8] ==
                IF n = 0 THEN MulCarry(a, b, k)
                ELSE sum[n - 1] + (IF n <= k THEN a[n] * b[k + 1 - n] ELSE 0)
        IN sum[8] % 256]

\* a < b, signed
RECURSIVE LessFrom(_, _, _)
LessFrom(a, b, i) ==
    IF i = 0 THEN FALSE
    ELSE IF a[i] /= b[i] THEN a[i] < b[i]
    ELSE LessFrom(a, b, i - 1)

Less64(a, b) ==
    IF IsNeg64(a) /= IsNeg64(b) THEN IsNeg64(a) ELSE LessFrom(a, b, 8)

\* a / 2 for a >= 0
Half64(a) == [i \in 1..8 |-> (a[i] \div 2) + (IF i < 8 /\ a[i + 1] % 2 = 1 THEN 128 ELSE 0)]

\* a + b, the low 64 bits
Add64(a, b) ==
    LET carry[i \in 1..9] ==
            IF i = 1 THEN 0 ELSE (a[i - 1] + b[i - 1] + carry[i - 1]) \div 256
    IN [i \in 1..8 |-> (a[i] + b[i] + carry[i]) % 256]

\* a - 1 for a > 0
Dec64(a) ==
    LET borrow[i \in 1..9] ==
            IF i = 1 THEN TRUE ELSE borrow[i - 1] /\ a[i - 1] = 0
    IN [i \in 1..8 |-> IF borrow[i] THEN (a[i] + 255) % 256 ELSE a[i]]

\* delay := baseDelay * (1 << attempt); if delay > maxDelay { delay = maxDelay }
cappedDelay(attempt) ==
    LET delay == Mul64(baseDelay, Shl1(attempt))
    IN IF Less64(maxDelay, delay) THEN maxDelay ELSE delay

\* backoffDelay: the values rand.Int63n may make it return, or a panic:
\* Int63n panics unless its argument is positive.  Of the jitter in
\* [0, delay/2) the model keeps the least, the greatest and the one halfway.
backoffDelay(attempt) ==
    LET delay == cappedDelay(attempt)
        n == Half64(delay)
    IN IF IsNeg64(delay) \/ n = Zero64
       THEN {[panicked |-> TRUE, delay |-> delay, d |-> Zero64]}
       ELSE {[panicked |-> FALSE, delay |-> delay, d |-> Add64(n, jitter)] :
                jitter \in {Zero64, Half64(n), Dec64(n)}}

\* Retry is about to call backoffDelay(attempt)
BackoffPending(k) == [pc |-> "backoff", attempt |-> k, panicked |-> FALSE,
                      delay |-> Zero64, d |-> Zero64]

\* delay := backoffDelay(attempt)
BackoffCompute ==
    /\ retry.pc = "backoff"
    /\ \E r \in backoffDelay(retry.attempt) :
        retry' = [pc |-> IF r.panicked THEN "panicked" ELSE "wait",
                  attempt |-> retry.attempt, panicked |-> r.panicked,
                  delay |-> r.delay, d |-> r.d]
    /\ UNCHANGED <<syncVars, boot, engine, ev, listener, conv>>

\* any attempt index
InitBackoff ==
    /\ listMappings \in Configs
    /\ InitWorld(0)
    /\ edits = 0
    /\ InitPass
    /\ boot = NoBoot
    /\ \E k \in 0..MaxIndex : retry = BackoffPending(k)
    /\ engine = EngineOff
    /\ ev = EvIdle
    /\ listener = ListenerOff
    /\ conv = ConvIdle

NextBackoff == BackoffCompute

SpecBackoff == InitBackoff /\ [][NextBackoff]_vars

\* D = min(500 ms * 2^k, 5 s) as a number: the product is above 5 s from k = 4
BackoffBound(k) == IF k <= 3 THEN Mul64(baseDelay, Shl1(k)) ELSE maxDelay

\* C40: for every attempt index k, backoffDelay(k) does not panic and returns
\* a d with D/2 <= d < D, D = min(500 ms * 2^k, 5 s).
C40_BackoffInRange ==
    retry.pc \in {"wait", "panicked"} =>
        /\ ~retry.panicked
        /\ ~Less64(retry.d, Half64(BackoffBound(retry.attempt)))
        /\ Less64(retry.d, BackoffBound(retry.attempt))

\* the same range for the attempt indexes up to 34, which include those of
\* the adapter's calls (defaultMaxAttempts = 3)
BackoffInRangeUpTo34 ==
    (retry.pc \in {"wait", "panicked"} /\ retry.attempt <= 34) =>
        /\ ~retry.panicked
        /\ ~Less64(retry.d, Half64(BackoffBound(retry.attempt)))
        /\ Less64(retry.d, BackoffBound(retry.attempt))

====
